---- MODULE Spec2Model ----
(***************************************************************************)
(* A model of the CSAF aggregator's provider discovery, its orphan sweep   *)
(* and process driver (cmd/csaf_aggregator/processor.go) and of the        *)
(* provider metadata model (csaf/models.go).                               *)
(*                                                                         *)
(* Strings that the code takes apart or puts together (domains, URLs,      *)
(* file system paths) are sequences of tokens; all other strings are       *)
(* TLA+ strings.  Go's nil (a nil error, a nil pointer, a nil interface)   *)
(* is the string "nil".                                                    *)
(***************************************************************************)
EXTENDS Integers, Sequences, FiniteSets, TLC

VARIABLES
    \* ---- worker.locateProviderMetadata
    w,          \* the worker: [metadataProvider, loc]
    domain,     \* the argument of locateProviderMetadata
    lpc,        \* position in locateProviderMetadata
    idx,        \* index of the range loop over providerMetadataLocations
    fetched,    \* history: the GET requests made so far, with what came back
    lret,       \* the value locateProviderMetadata returned
    \* ---- processor.process and processor.removeOrphans
    cfg,        \* the configuration: [Folder, Web, Providers, Interim]
    fs,         \* the file system: path -> [kind, target]
    fs0,        \* history: the file system when process was called
    ppc,        \* position in process
    prefix,     \* removeOrphans' local `prefix`
    entries,    \* removeOrphans' local `entries`, the part not yet ranged over
    swept,      \* history: the entries ranged over, with what was done
    calls,      \* history: the calls process has made
    oret,       \* the value removeOrphans returned
    pret,       \* the value process returned
    \* ---- csaf.ProviderMetadata
    pmd,        \* the document at hand
    mpc,        \* position of the caller working on the document
    verr,       \* the value pmd.Validate() returned
    buf,        \* what Save wrote: the JSON text
    loaded,     \* the document LoadProviderMetadata returned
    lerr,       \* the error LoadProviderMetadata returned
    keys0,      \* history: pmd.PGPKeys before the first SetPGP call
    lastSet,    \* history: fingerprint -> the url of the last SetPGP call
    \* ---- worker.createDir
    provider,   \* w.provider.Name
    wdir,       \* w.dir
    made,       \* history: the directories util.MakeUniqDir has created
    rets,       \* history: what the createDir calls returned, in order
    \* ---- controller.bind and controller.auth
    ccfg,       \* c.cfg: [Issuer, Password, NoWebUI]
    creq,       \* the request being served, with the environment it came in
    cresp       \* history: the answer: [status, invoked]

lvars == <<w, domain, lpc, idx, fetched, lret>>

pvars == <<cfg, fs, fs0, ppc, prefix, entries, swept, calls, oret, pret>>

mvars == <<pmd, mpc, verr, buf, loaded, lerr>>

\* the history of the SetPGP calls
kvars == <<keys0, lastSet>>

dvars == <<provider, wdir, made, rets>>

avars == <<ccfg, creq, cresp>>

vars == <<w, domain, lpc, idx, fetched, lret,
          cfg, fs, fs0, ppc, prefix, entries, swept, calls, oret, pret,
          pmd, mpc, verr, buf, loaded, lerr, keys0, lastSet,
          provider, wdir, made, rets, ccfg, creq, cresp>>

nil == "nil"

----------------------------------------------------------------------------
(* Bounds                                                                  *)

\* the longest security.txt the server sends, in lines
MaxLines == 2

\* the number of symbolic links filepath.EvalSymlinks follows before it
\* gives up (the model's chains are shorter, its loops are not)
MaxLinks == 3

----------------------------------------------------------------------------
(* worker.locateProviderMetadata                                           *)

StatusOK == 200

errNotFound == "errNotFound"

errNoPMDInSecurityTxt == "no provider-metadata.json found in secturity.txt"

\* errors of the transport (client.Get) and of reading a response body
TransportErrs == {"errTimeout", "errConnRefused"}

errBodyRead == "errBodyRead"

Domains == { <<"example.com">>, <<"https://", "example.com">> }

\* what a server may answer to a GET of a JSON document
Bodies == {"", "{bad", "null", "{doc1}"}

HTTPResponses ==
    { [terr |-> e, status |-> 0, body |-> ""] : e \in TransportErrs }
    \cup { [terr |-> nil, status |-> 404, body |-> ""] }
    \cup { [terr |-> nil, status |-> StatusOK, body |-> b] : b \in Bodies }

\* URLs a security.txt may name
PMDURLs ==
    { <<"https://", "example.com", "/", "pmd/provider-metadata.json">>,
      <<"https://", "other.org", "/", "provider-metadata.json">> }

SecLines ==
    { [field |-> "CSAF", value |-> u] : u \in PMDURLs }
    \cup { [field |-> "Contact", value |-> <<"mailto:", "sec@example.com">>] }

RECURSIVE SeqsUpTo(_, _)
SeqsUpTo(S, n) ==
    IF n = 0 THEN { <<>> }
    ELSE LET shorter == SeqsUpTo(S, n - 1)
         IN shorter \cup { Append(s, x) : s \in shorter, x \in S }

SecResponses ==
    { [terr |-> e, status |-> 0, lines |-> <<>>, readErr |-> FALSE] :
        e \in TransportErrs }
    \cup { [terr |-> nil, status |-> 404, lines |-> <<>>, readErr |-> FALSE] }
    \cup { [terr |-> nil, status |-> StatusOK, lines |-> <<>>, readErr |-> TRUE] }
    \cup { [terr |-> nil, status |-> StatusOK, lines |-> l, readErr |-> FALSE] :
             l \in SeqsUpTo(SecLines, MaxLines) }

httpsDomain(d) ==
    IF Len(d) > 0 /\ d[1] = "https://" THEN d ELSE <<"https://">> \o d

providerMetadataLocationsSwapped ==
    << ".well-known/csaf", "advisories/csaf", "security/data/csaf", "security/csaf" >>

providerMetadataLocations ==
    << ".well-known/csaf", "security/data/csaf", "advisories/csaf", "security/csaf" >>

\* json.NewDecoder(r).Decode(&v) for v of type interface{}: a syntax error
\* (or an empty stream) leaves v as it is, null stores nil, any other value
\* stores the decoded value.
JSONDecode(body, v) ==
    CASE body = "null"   -> [err |-> nil, val |-> nil]
      [] body = "{doc1}" -> [err |-> nil, val |-> "doc1"]
      [] OTHER           -> [err |-> "errJSON", val |-> v]

downloadHardError(body, mp) ==
    LET d == JSONDecode(body, mp)
    IN  [err |-> d.err, mp |-> d.val]

\* the callback `download`: a decode error is reported as errNotFound
download(body, mp) ==
    LET d == JSONDecode(body, mp)
    IN  IF d.err # nil
        THEN [err |-> errNotFound, mp |-> d.val]
        ELSE [err |-> nil, mp |-> d.val]

\* downloadJSON(client, url, found): a transport error is a hard error, a
\* non-success status or an empty body is errNotFound, otherwise the body is
\* handed to the callback and the callback's result returned.
downloadJSON(res, mp) ==
    IF res.terr # nil THEN [err |-> res.terr, mp |-> mp]
    ELSE IF res.status # StatusOK \/ res.body = "" THEN [err |-> errNotFound, mp |-> mp]
    ELSE download(res.body, mp)

\* csaf.ExtractProviderURL(r, false): the values of the CSAF: fields, in order
RECURSIVE CSAFValues(_)
CSAFValues(lines) ==
    IF lines = <<>> THEN <<>>
    ELSE IF Head(lines).field = "CSAF"
         THEN <<Head(lines).value>> \o CSAFValues(Tail(lines))
         ELSE CSAFValues(Tail(lines))

ExtractProviderURL(res) ==
    IF res.readErr THEN [err |-> errBodyRead, urls |-> <<>>]
    ELSE [err |-> nil, urls |-> CSAFValues(res.lines)]

WellKnownURL(hd, loc) == hd \o <<"/", loc>>

SecurityTxtURL(hd) == hd \o <<"/.well-known/security.txt">>

IsNotFoundAnyError(err) == err # nil

\* `if err == errNotFound { continue }`
IsNotFound(err) == err = errNotFound

\* `if w.metadataProvider != nil`
Found(mp) == mp # nil

\* the loop leaves to the security.txt part after the last location
AfterProbe(i) ==
    IF i < Len(providerMetadataLocations)
    THEN [lpc |-> "probe", idx |-> i + 1]
    ELSE [lpc |-> "sectxt", idx |-> i]

\* the part of the state locateProviderMetadata works on, at rest
IdleLocate ==
    /\ w = [metadataProvider |-> nil, loc |-> <<>>]
    /\ domain = <<>>
    /\ lpc = "off"
    /\ idx = 0
    /\ fetched = <<>>
    /\ lret = "running"

\* the part of the state process works on, at rest
IdleProcess ==
    /\ cfg = [Folder |-> <<>>, Web |-> <<>>, Providers |-> {}, Interim |-> FALSE]
    /\ fs = <<>>
    /\ fs0 = <<>>
    /\ ppc = "off"
    /\ prefix = <<>>
    /\ entries = <<>>
    /\ swept = <<>>
    /\ calls = <<>>
    /\ oret = "running"
    /\ pret = "running"

\* the part of the state the provider metadata calls work on, at rest
IdleMetadata ==
    /\ pmd = <<>>
    /\ mpc = "off"
    /\ verr = "unset"
    /\ buf = <<>>
    /\ loaded = <<>>
    /\ lerr = "unset"

\* the part of the state the controller works on, at rest
IdleAuth ==
    /\ ccfg = <<>>
    /\ creq = <<>>
    /\ cresp = <<>>

\* the part of the state createDir works on, at rest
IdleDir ==
    /\ provider = ""
    /\ wdir = [prefix |-> <<>>, uniq |-> 0]
    /\ made = {}
    /\ rets = <<>>

\* no SetPGP call is under observation
IdleKeys ==
    /\ keys0 = <<>>
    /\ lastSet = <<>>

InitLocate ==
    /\ IdleProcess
    /\ IdleMetadata
    /\ IdleKeys
    /\ IdleAuth
    /\ IdleDir
    /\ w \in { [metadataProvider |-> nil, loc |-> <<>>],
               [metadataProvider |-> "docOld", loc |-> <<"old">>] }
    /\ domain \in Domains
    /\ lpc = "idle"
    /\ idx = 0
    /\ fetched = <<>>
    /\ lret = "running"

\* entry of locateProviderMetadata: w.metadataProvider = nil
LocateStart ==
    /\ lpc = "idle"
    /\ w' = [w EXCEPT !.metadataProvider = nil]
    /\ lpc' = "probe"
    /\ idx' = 1
    /\ UNCHANGED <<domain, fetched, lret>>
    /\ UNCHANGED pvars
    /\ UNCHANGED mvars
    /\ UNCHANGED kvars
    /\ UNCHANGED avars
    /\ UNCHANGED dvars

\* one iteration of the loop over providerMetadataLocations
Probe ==
    /\ lpc = "probe"
    /\ \E res \in HTTPResponses :
        LET loc == providerMetadataLocations[idx]
            url == WellKnownURL(httpsDomain(domain), loc)
            r   == downloadJSON(res, w.metadataProvider)
            nxt == AfterProbe(idx)
        IN  /\ fetched' = Append(fetched, [url |-> url, res |-> res, err |-> r.err])
            /\ IF r.err # nil
               THEN IF IsNotFound(r.err)
                    THEN /\ w' = [w EXCEPT !.metadataProvider = r.mp]
                         /\ lpc' = nxt.lpc /\ idx' = nxt.idx
                         /\ UNCHANGED lret
                    ELSE /\ w' = [w EXCEPT !.metadataProvider = r.mp]
                         /\ lpc' = "done" /\ lret' = r.err
                         /\ UNCHANGED idx
               ELSE IF Found(r.mp)
                    THEN /\ w' = [metadataProvider |-> r.mp, loc |-> <<loc>>]
                         /\ lpc' = "done" /\ lret' = nil
                         /\ UNCHANGED idx
                    ELSE /\ w' = [w EXCEPT !.metadataProvider = r.mp]
                         /\ lpc' = nxt.lpc /\ idx' = nxt.idx
                         /\ UNCHANGED lret
    /\ UNCHANGED domain
    /\ UNCHANGED pvars
    /\ UNCHANGED mvars
    /\ UNCHANGED kvars
    /\ UNCHANGED avars
    /\ UNCHANGED dvars

SecurityTxtLocLast(x, cur) ==
    IF x.err # nil THEN [err |-> x.err, loc |-> cur]
    ELSE IF Len(x.urls) = 0 THEN [err |-> errNoPMDInSecurityTxt, loc |-> cur]
    ELSE [err |-> nil, loc |-> x.urls[Len(x.urls)]]

\* the result of the closure over the security.txt body
SecurityTxtLoc(x, cur) ==
    IF x.err # nil THEN [err |-> x.err, loc |-> cur]
    ELSE IF Len(x.urls) = 0 THEN [err |-> errNoPMDInSecurityTxt, loc |-> cur]
    ELSE [err |-> nil, loc |-> x.urls[1]]

\* "Read from security.txt"
SecurityTxt ==
    /\ lpc = "sectxt"
    /\ \E res \in SecResponses :
        LET url == SecurityTxtURL(httpsDomain(domain))
            s   == SecurityTxtLoc(ExtractProviderURL(res), w.loc)
            err == IF res.terr # nil THEN res.terr
                   ELSE IF res.status # StatusOK THEN errNotFound
                   ELSE s.err
        IN  /\ fetched' = Append(fetched, [url |-> url, res |-> res, err |-> err])
            /\ IF err # nil
               THEN /\ lpc' = "done" /\ lret' = err
                    /\ UNCHANGED w
               ELSE /\ lpc' = "final"
                    /\ w' = [w EXCEPT !.loc = s.loc]
                    /\ UNCHANGED lret
    /\ UNCHANGED <<domain, idx>>
    /\ UNCHANGED pvars
    /\ UNCHANGED mvars
    /\ UNCHANGED kvars
    /\ UNCHANGED avars
    /\ UNCHANGED dvars

\* `return downloadJSON(w.client, w.loc, download)`
FinalDownload ==
    /\ lpc = "final"
    /\ \E res \in HTTPResponses :
        LET r == downloadJSON(res, w.metadataProvider)
        IN  /\ fetched' = Append(fetched, [url |-> w.loc, res |-> res, err |-> r.err])
            /\ w' = [w EXCEPT !.metadataProvider = r.mp]
            /\ lret' = r.err
            /\ lpc' = "done"
    /\ UNCHANGED <<domain, idx>>
    /\ UNCHANGED pvars
    /\ UNCHANGED mvars
    /\ UNCHANGED kvars
    /\ UNCHANGED avars
    /\ UNCHANGED dvars

NextLocate ==
    \/ LocateStart
    \/ Probe
    \/ SecurityTxt
    \/ FinalDownload

SpecLocate == InitLocate /\ [][NextLocate]_vars

----------------------------------------------------------------------------
(* The file system                                                         *)

Root == <<"/">>

\* the working folder, as the file system knows it
W == <<"/", "var", "agg">>

\* a symbolic link to the working folder
LinkedFolder == <<"/", "srv", "agglink">>

\* the working directory of the process
Cwd == <<"/", "var">>

\* the values of cfg.Folder: absolute, relative, through a symbolic link
FolderCfgs == { W, <<"agg">>, LinkedFolder }

\* the values of cfg.Web: inside the working folder, outside of it
WebCfgs == { W \o <<"html">>, <<"/", "srv", "www">> }

\* names of the entries of the published folder and of the providers
Names == {"a", "b"}

NoNode == [kind |-> "none", target |-> <<>>]

DirNode == [kind |-> "dir", target |-> <<>>]

FileNode == [kind |-> "file", target |-> <<>>]

LinkNode(t) == [kind |-> "link", target |-> t]

IsPrefix(a, b) == Len(a) <= Len(b) /\ SubSeq(b, 1, Len(a)) = a

PrefixesOf(p) == { SubSeq(p, 1, k) : k \in 1..Len(p) }

\* filepath.Join of clean paths
Join(p, q) == p \o q

\* path := filepath.Join(p.cfg.Web, ".well-known", "csaf-aggregator")
PublishedPath(web) == Join(web, <<".well-known", "csaf-aggregator">>)

\* every path the model's file systems know
AllPaths ==
    UNION { PrefixesOf(p) :
        p \in { W \o <<"m1", "sub">>, W \o <<"f">>, W \o <<"gone">>,
                <<"/", "ext", "d">>, LinkedFolder }
              \cup { Join(PublishedPath(web), <<n>>) : web \in WebCfgs, n \in Names } }

\* the node at a path (lstat)
Kind(f, p) == IF p \in DOMAIN f THEN f[p] ELSE NoNode

\* filepath.Abs
Abs(p) == IF p # <<>> /\ p[1] = "/" THEN p ELSE Cwd \o p

\* filepath.EvalSymlinks, walking the components of an absolute path and
\* following links: `done` is resolved, `rest` is still to walk.
RECURSIVE Walk(_, _, _, _)
Walk(f, done, rest, fuel) ==
    IF rest = <<>> THEN [err |-> nil, path |-> done]
    ELSE LET nxt == Append(done, Head(rest))
             n   == Kind(f, nxt)
         IN  CASE n.kind = "none" -> [err |-> "ENOENT", path |-> <<>>]
               [] n.kind = "file" ->
                    IF Tail(rest) = <<>> THEN [err |-> nil, path |-> nxt]
                    ELSE [err |-> "ENOTDIR", path |-> <<>>]
               [] n.kind = "link" ->
                    IF fuel = 0 THEN [err |-> "ELOOP", path |-> <<>>]
                    ELSE Walk(f, Root, Tail(n.target) \o Tail(rest), fuel - 1)
               [] OTHER -> Walk(f, nxt, Tail(rest), fuel)

EvalSymlinks(f, p) == Walk(f, Root, Tail(Abs(p)), MaxLinks)

\* os.Stat: the node a path resolves to
Stat(f, p) ==
    LET ev == EvalSymlinks(f, p)
    IN  IF ev.err # nil THEN [err |-> ev.err, kind |-> "none"]
        ELSE [err |-> nil, kind |-> Kind(f, ev.path).kind]

\* os.IsNotExist
IsNotExist(err) == err = "ENOENT"

\* os.MkdirAll: creates the path and its missing parents; fails when a
\* component is there and is no directory
MkdirAll(f, p, ioerr) ==
    LET ap == Abs(p)
        blocked == \E q \in PrefixesOf(ap) : Kind(f, q).kind \in {"file", "link"}
    IN  IF ioerr # nil THEN [err |-> ioerr, fs |-> f]
        ELSE IF blocked THEN [err |-> "ENOTDIR", fs |-> f]
        ELSE [err |-> nil,
              fs |-> [q \in DOMAIN f |-> IF q \in PrefixesOf(ap) THEN DirNode ELSE f[q]]]

\* os.Remove of a link
Remove(f, d) == [q \in DOMAIN f |-> IF q = d THEN NoNode ELSE f[q]]

\* os.RemoveAll: the path and everything below it
RemoveAll(f, r) == [q \in DOMAIN f |-> IF IsPrefix(r, q) THEN NoNode ELSE f[q]]

\* an os.RemoveAll that fails after it removed what is below the path
RemoveBelow(f, r) ==
    [q \in DOMAIN f |-> IF IsPrefix(r, q) /\ q # r THEN NoNode ELSE f[q]]

\* filepath.Base
Base(p) == p[Len(p)]

RECURSIVE CommonLen(_, _)
CommonLen(a, b) ==
    IF a = <<>> \/ b = <<>> \/ Head(a) # Head(b) THEN 0
    ELSE 1 + CommonLen(Tail(a), Tail(b))

\* filepath.Rel of clean paths: up from base to the common parent, then down
Rel(base, targ) ==
    IF (base[1] = "/") # (targ[1] = "/")
    THEN [err |-> "errRel", path |-> <<>>]
    ELSE LET c    == CommonLen(base, targ)
             up   == [i \in 1..(Len(base) - c) |-> ".."]
             down == SubSeq(targ, c + 1, Len(targ))
         IN  [err |-> nil,
              path |-> IF up \o down = <<>> THEN <<".">> ELSE up \o down]

----------------------------------------------------------------------------
(* ensureDir, processor.removeOrphans, processor.process                   *)

\* errors the operating system may report whatever the file system holds
IOErrs == {nil, "EACCES"}

ensureDir(f, path, statErr, mkdirErr) ==
    LET st == Stat(f, path)
    IN  IF statErr # nil THEN [err |-> statErr, fs |-> f]
        ELSE IF st.err # nil /\ IsNotExist(st.err) THEN MkdirAll(f, path, mkdirErr)
        ELSE [err |-> st.err, fs |-> f]

ReturnsErrNever(err) == FALSE

\* process: `if err := ...; err != nil { return err }`
ReturnsErr(err) == err # nil

\* keep[entry.Name()]
Keep(c, name) == name \in c.Providers

IsMirrorAlways(f, r) == TRUE

\* `fd.IsDir()`: "If its not a directory its not a mirror."
IsMirror(f, r) == Kind(f, r).kind = "dir"

InOurFolderAlways(pfx, r) == TRUE

\* `rel, err := filepath.Rel(prefix, r); err == nil && rel == filepath.Base(r)`
InOurFolder(pfx, r) ==
    LET rel == Rel(pfx, r)
    IN  rel.err = nil /\ rel.path = <<Base(r)>>

ResolvePrefixNoEval(f, folder) == [err |-> nil, path |-> Abs(folder)]

\* `prefix, err := filepath.Abs(p.cfg.Folder)` and
\* `prefix, err = filepath.EvalSymlinks(prefix)`
ResolvePrefix(f, folder) == EvalSymlinks(f, Abs(folder))

\* what the calls of one loop iteration may fail with
EntryFails == {"none", "info", "eval", "stat", "remove", "removeAll", "removeAllPartly"}

\* the body of the loop over the entries, for the entry `name`
SweepOne(f, c, pfx, name, fail) ==
    LET d  == Join(PublishedPath(c.Web), <<name>>)
        fi == Kind(f, d)
        ev == EvalSymlinks(f, d)
        r  == ev.path
        f1 == Remove(f, d)
        out(o, g) == [fs |-> g, outcome |-> o, name |-> name,
                      r |-> IF ev.err = nil THEN r ELSE <<>>]
    IN  IF Keep(c, name) THEN out("keep", f)
        ELSE IF fail = "info" \/ fi.kind = "none" THEN out("infoErr", f)
        ELSE IF fi.kind # "link" THEN out("notLink", f)
        ELSE IF fail = "eval" \/ ev.err # nil THEN out("evalErr", f)
        ELSE IF fail = "stat" THEN out("statErr", f)
        ELSE IF ~IsMirror(f, r) THEN out("notDir", f)
        ELSE IF fail = "remove" THEN out("removeErr", f)
        ELSE IF ~InOurFolder(pfx, r) THEN out("linkRemoved", f1)
        ELSE IF fail = "removeAll" THEN out("removeAllErr", f1)
        ELSE IF fail = "removeAllPartly" THEN out("removeAllErr", RemoveBelow(f1, r))
        ELSE out("dirRemoved", RemoveAll(f1, r))

\* the names dir.ReadDir(-1) returns
EntryNames(f, path) == { n \in Names : Kind(f, Join(path, <<n>>)).kind # "none" }

\* directory order is any order
Orders(S) ==
    { s \in SeqsUpTo(S, Cardinality(S)) :
        Len(s) = Cardinality(S) /\ \A n \in S : \E i \in 1..Len(s) : s[i] = n }

\* `if p.cfg.Interim { return p.interim() }; return p.full()`
SyncMode(c) == IF c.Interim THEN "interim" ELSE "full"

\* what links of the published folder may point to
LinkTargets(web, name) ==
    { W \o <<"m1">>, W \o <<"m1", "sub">>, W \o <<"f">>, W \o <<"gone">>,
      W \o <<"html">>, <<"/", "ext", "d">>, LinkedFolder \o <<"m1">> }
    \cup { Join(PublishedPath(web), <<n>>) : n \in Names \ {name} }

EntryNodes(web, name) ==
    {NoNode, DirNode, FileNode} \cup { LinkNode(t) : t \in LinkTargets(web, name) }

\* the file system before anything is published: `state` tells what is
\* there of the working folder and of the published folder
BaseFS(web, state) ==
    LET pub  == PublishedPath(web)
        dirs == PrefixesOf(W \o <<"m1", "sub">>) \cup PrefixesOf(<<"/", "ext", "d">>)
                    \cup PrefixesOf(<<"/", "srv">>) \cup PrefixesOf(pub)
        gone == CASE state = "noFolder" ->
                       { q \in AllPaths : IsPrefix(W, q) \/ IsPrefix(web, q) }
                  [] state = "noWeb" -> { q \in AllPaths : IsPrefix(web, q) }
                  [] OTHER -> {}
    IN  [q \in AllPaths |->
            IF q \in gone THEN NoNode
            ELSE IF q = pub /\ state = "webIsFile" THEN FileNode
            ELSE IF q = LinkedFolder THEN LinkNode(W)
            ELSE IF q = W \o <<"f">> THEN FileNode
            ELSE IF q \in dirs THEN DirNode
            ELSE NoNode]

WithEntries(f, web, nodes) ==
    [q \in DOMAIN f |->
        IF \E n \in Names : q = Join(PublishedPath(web), <<n>>)
        THEN nodes[Base(q)]
        ELSE f[q]]

InitialFS(web) ==
    { BaseFS(web, st) : st \in {"noFolder", "noWeb", "webIsFile"} }
    \cup { WithEntries(BaseFS(web, "all"), web, nodes) :
             nodes \in { g \in [Names -> UNION { EntryNodes(web, n) : n \in Names }] :
                           \A n \in Names : g[n] \in EntryNodes(web, n) } }

InitProcess ==
    /\ IdleLocate
    /\ IdleMetadata
    /\ IdleKeys
    /\ IdleAuth
    /\ IdleDir
    /\ \E folder \in FolderCfgs, web \in WebCfgs, provs \in SUBSET Names,
          interim \in BOOLEAN :
         /\ cfg = [Folder |-> folder, Web |-> web, Providers |-> provs,
                   Interim |-> interim]
         /\ fs \in InitialFS(web)
    /\ fs0 = fs
    /\ ppc = "start"
    /\ prefix = <<>>
    /\ entries = <<>>
    /\ swept = <<>>
    /\ calls = <<>>
    /\ oret = "running"
    /\ pret = "running"

\* `if err := ensureDir(p.cfg.Folder); err != nil { return err }`
EnsureFolder ==
    /\ ppc = "start"
    /\ \E statErr \in IOErrs, mkdirErr \in IOErrs :
        LET e == ensureDir(fs, cfg.Folder, statErr, mkdirErr)
        IN  /\ fs' = e.fs
            /\ calls' = Append(calls, [op |-> "ensureDir", err |-> e.err])
            /\ IF ReturnsErr(e.err)
               THEN ppc' = "done" /\ pret' = e.err
               ELSE ppc' = "ensureWeb" /\ UNCHANGED pret
    /\ UNCHANGED <<cfg, fs0, prefix, entries, swept, oret>>
    /\ UNCHANGED lvars
    /\ UNCHANGED mvars
    /\ UNCHANGED kvars
    /\ UNCHANGED avars
    /\ UNCHANGED dvars

\* `if err := ensureDir(web); err != nil { return err }`
EnsureWeb ==
    /\ ppc = "ensureWeb"
    /\ \E statErr \in IOErrs, mkdirErr \in IOErrs :
        LET e == ensureDir(fs, PublishedPath(cfg.Web), statErr, mkdirErr)
        IN  /\ fs' = e.fs
            /\ calls' = Append(calls, [op |-> "ensureDir", err |-> e.err])
            /\ IF ReturnsErr(e.err)
               THEN ppc' = "done" /\ pret' = e.err
               ELSE ppc' = "orphans" /\ UNCHANGED pret
    /\ UNCHANGED <<cfg, fs0, prefix, entries, swept, oret>>
    /\ UNCHANGED lvars
    /\ UNCHANGED mvars
    /\ UNCHANGED kvars
    /\ UNCHANGED avars
    /\ UNCHANGED dvars

\* removeOrphans up to its loop: the entries are read, the prefix resolved
RemoveOrphansStart ==
    /\ ppc = "orphans"
    /\ \E fail \in {"none", "open", "readdir", "abs"} :
        LET path == PublishedPath(cfg.Web)
            st   == Stat(fs, path)
            pfx  == ResolvePrefix(fs, cfg.Folder)
            err  == IF fail = "open" THEN "EACCES"
                    ELSE IF st.err # nil THEN st.err
                    ELSE IF fail = "readdir" THEN "EIO"
                    ELSE IF st.kind # "dir" THEN "ENOTDIR"
                    ELSE IF fail = "abs" /\ cfg.Folder[1] # "/" THEN "errGetwd"
                    ELSE pfx.err
        IN  /\ calls' = Append(calls, [op |-> "removeOrphans", err |-> err])
            /\ IF err # nil
               THEN /\ oret' = err
                    /\ IF ReturnsErr(err)
                       THEN ppc' = "done" /\ pret' = err
                       ELSE ppc' = "sync" /\ UNCHANGED pret
                    /\ UNCHANGED <<prefix, entries>>
               ELSE /\ prefix' = pfx.path
                    /\ entries' \in Orders(EntryNames(fs, path))
                    /\ IF entries' = <<>>
                       THEN oret' = nil /\ ppc' = "sync"
                       ELSE ppc' = "sweep" /\ UNCHANGED oret
                    /\ UNCHANGED pret
    /\ UNCHANGED <<cfg, fs, fs0, swept>>
    /\ UNCHANGED lvars
    /\ UNCHANGED mvars
    /\ UNCHANGED kvars
    /\ UNCHANGED avars
    /\ UNCHANGED dvars

\* one iteration of removeOrphans' loop; after the last one it returns nil
SweepEntry ==
    /\ ppc = "sweep"
    /\ \E fail \in EntryFails :
        LET s == SweepOne(fs, cfg, prefix, Head(entries), fail)
        IN  /\ fs' = s.fs
            /\ swept' = Append(swept,
                    [name |-> s.name, outcome |-> s.outcome, r |-> s.r])
    /\ entries' = Tail(entries)
    /\ IF entries' = <<>>
       THEN oret' = nil /\ ppc' = "sync"
       ELSE UNCHANGED <<oret, ppc>>
    /\ UNCHANGED <<cfg, fs0, prefix, calls, pret>>
    /\ UNCHANGED lvars
    /\ UNCHANGED mvars
    /\ UNCHANGED kvars
    /\ UNCHANGED avars
    /\ UNCHANGED dvars

\* the sync, full or interim, and the return of its result
Sync ==
    /\ ppc = "sync"
    /\ \E res \in {nil, "errSync"} :
        /\ calls' = Append(calls, [op |-> SyncMode(cfg), err |-> res])
        /\ pret' = res
    /\ ppc' = "done"
    /\ UNCHANGED <<cfg, fs, fs0, prefix, entries, swept, oret>>
    /\ UNCHANGED lvars
    /\ UNCHANGED mvars
    /\ UNCHANGED kvars
    /\ UNCHANGED avars
    /\ UNCHANGED dvars

NextProcess ==
    \/ EnsureFolder
    \/ EnsureWeb
    \/ RemoveOrphansStart
    \/ SweepEntry
    \/ Sync

SpecProcess == InitProcess /\ [][NextProcess]_vars

----------------------------------------------------------------------------
(* worker.createDir                                                        *)

\* the number of createDir calls made on the worker
MaxCalls == 4

\* a directory name: the prefix it was asked for and what makes it unique;
\* NoDir is the ""
NoDir == [prefix |-> <<>>, uniq |-> 0]

\* util.MakeUniqDir(prefix), with existing the directories it has made:
\* a directory that was not there, or an error and no directory
MakeUniqDir(pfx, existing) ==
    { [dir |-> [prefix |-> pfx, uniq |-> Cardinality(existing) + 1],
       err |-> nil] }
    \cup { [dir |-> NoDir, err |-> e] : e \in {"EACCES", "ENOSPC"} }

\* a worker that never takes the directory it has
HasDirNever(dir) == FALSE

\* `w.dir != ""`
HasDir(dir) == dir # NoDir

\* worker.createDir, with r what util.MakeUniqDir returns if called: the
\* pair it returns, w.dir after it, and whether it called util.MakeUniqDir
createDir(dir, r) ==
    IF HasDir(dir)
    THEN [dir |-> dir, err |-> nil, wdir |-> dir, called |-> FALSE]
    ELSE [dir |-> r.dir, err |-> r.err,
          wdir |-> IF r.err = nil THEN r.dir ELSE dir, called |-> TRUE]

\* newWorker, with a provider assigned
InitCreateDir ==
    /\ IdleLocate
    /\ \E folder \in FolderCfgs :
          cfg = [Folder |-> folder, Web |-> <<>>, Providers |-> {},
                 Interim |-> FALSE]
    /\ fs = <<>>
    /\ fs0 = <<>>
    /\ ppc = "off"
    /\ prefix = <<>>
    /\ entries = <<>>
    /\ swept = <<>>
    /\ calls = <<>>
    /\ oret = "running"
    /\ pret = "running"
    /\ IdleMetadata
    /\ IdleKeys
    /\ IdleAuth
    /\ provider \in Names
    /\ wdir = NoDir
    /\ made = {}
    /\ rets = <<>>

\* a call w.createDir()
CallCreateDir ==
    /\ Len(rets) < MaxCalls
    /\ \E r \in MakeUniqDir(Join(cfg.Folder, <<provider>>), made) :
          LET c == createDir(wdir, r)
          IN  /\ wdir' = c.wdir
              /\ made' = IF c.called /\ r.err = nil THEN made \cup {r.dir}
                         ELSE made
              /\ rets' = Append(rets, c)
    /\ UNCHANGED provider
    /\ UNCHANGED lvars
    /\ UNCHANGED pvars
    /\ UNCHANGED mvars
    /\ UNCHANGED kvars
    /\ UNCHANGED avars

NextCreateDir == CallCreateDir

SpecCreateDir == InitCreateDir /\ [][NextCreateDir]_vars

----------------------------------------------------------------------------
(* controller.bind and controller.auth                                     *)

StatusForbidden == 403

\* c.cfg: the issuer and the password may be unset
ControllerCfgs ==
    [Issuer : {<<>>, <<"CN=CA1">>, <<"CN=CA2">>},
     Password : {<<>>, <<"hash">>},
     NoWebUI : BOOLEAN]

\* the paths bind registers a handler for
Routes(c) ==
    (IF ~c.NoWebUI THEN {"/", "/upload", "/create"} ELSE {})
    \cup {"/api/upload", "/api/create"}

\* a request: its path, what the environment says of the client
\* certificate (SSL_CLIENT_VERIFY, SSL_CLIENT_I_DN), whether it has an
\* X-CSAF-PROVIDER-AUTH header, and what c.cfg.checkPassword says of it
Requests(c) ==
    [path : Routes(c),
     verify : {"", "NONE", "SUCCESS", "FAILED"},
     issuerDN : {"", "CN=CA1", "CN=CA2"},
     header : BOOLEAN,
     checkPassword : BOOLEAN]

\* a certificate check that does not look at the issuer
CertAcceptedAnyIssuer(c, r) == r.verify = "SUCCESS"

\* `verify == "SUCCESS" && (c.cfg.Issuer == nil ||
\*  *c.cfg.Issuer == os.Getenv("SSL_CLIENT_I_DN"))`
CertAccepted(c, r) ==
    r.verify = "SUCCESS" /\ (c.Issuer = <<>> \/ c.Issuer[1] = r.issuerDN)

\* the function controller.auth returns, applied to a request: the status
\* it answers with, if it answers, and whether it calls fn
auth(c, r) ==
    IF CertAccepted(c, r) THEN [status |-> 0, invoked |-> TRUE]
    ELSE IF c.Password = <<>> THEN [status |-> StatusForbidden, invoked |-> FALSE]
    ELSE IF ~r.checkPassword THEN [status |-> StatusForbidden, invoked |-> FALSE]
    ELSE [status |-> 0, invoked |-> TRUE]

\* newController
InitAuth ==
    /\ IdleLocate
    /\ IdleProcess
    /\ IdleMetadata
    /\ IdleKeys
    /\ IdleDir
    /\ ccfg \in ControllerCfgs
    /\ creq = <<>>
    /\ cresp = <<>>

\* a request to a bound path is served
Serve ==
    /\ \E r \in Requests(ccfg) :
          /\ creq' = r
          /\ cresp' = auth(ccfg, r)
    /\ UNCHANGED ccfg
    /\ UNCHANGED lvars
    /\ UNCHANGED pvars
    /\ UNCHANGED mvars
    /\ UNCHANGED kvars
    /\ UNCHANGED dvars

NextAuth == Serve

SpecAuth == InitAuth /\ [][NextAuth]_vars

----------------------------------------------------------------------------
(* csaf.ProviderMetadata (models.go)                                       *)
(*                                                                         *)
(* A pointer is <<>> when nil and <<v>> when it points to v.  A slice is   *)
(* a sequence (a nil slice and an empty one are both <<>>).  The optional  *)
(* lists ROLIE.Categories and ROLIE.Services are left out.                 *)

null == <<>>

Ptr(v) == <<v>>

Deref(p) == p[1]

MetadataVersion20 == "2.0"

MetadataVersions == {MetadataVersion20}

MetadataRoleProvider == "csaf_provider"

MetadataRoles == {"csaf_publisher", MetadataRoleProvider, "csaf_trusted_provider"}

CSAFCategories == {"coordinator", "discoverer", "other", "translator", "user", "vendor"}

TLPLabels == {"UNLABELED", "WHITE", "GREEN", "AMBER", "RED"}

\* `^[0-9a-fA-F]{40,}$`: a fingerprint is [hex, len], what the pattern reads
FingerprintMinLen == 40

fingerprintPattern(fp) == fp.hex /\ fp.len >= FingerprintMinLen

\* `/provider-metadata\.json$`, on a URL as a sequence of tokens
providerURLPattern(u) == Len(u) > 0 /\ u[Len(u)] = "/provider-metadata.json"

\* `\.json$`
jsonURLPattern(u) == Len(u) > 0 /\ u[Len(u)] = ".json"

\* alternativesUnmarshal
alternativesUnmarshal(alternatives, s) == s \in alternatives

\* `for i := range xs { if err := xs[i].Validate(); err != nil {...} }`:
\* the first error among errs, the results of the calls in order
FirstError(errs) ==
    LET bad == { i \in 1..Len(errs) : errs[i] # nil }
    IN  IF bad = {} THEN nil
        ELSE errs[CHOOSE i \in bad : \A j \in bad : i <= j]

FeedValidate(f) ==
    IF f.TLPLabel = null THEN "feed[].tlp_label is mandatory"
    ELSE IF f.URL = null THEN "feed[].url is mandatory"
    ELSE nil

ROLIEValidate(r) ==
    IF Len(r.Feeds) < 1 THEN "ROLIE needs at least one feed"
    ELSE FirstError([i \in 1..Len(r.Feeds) |-> FeedValidate(r.Feeds[i])])

PublisherValidate(cp) ==
    IF cp = null THEN "publisher is mandatory"
    ELSE IF Deref(cp).Category = null THEN "publisher.category is mandatory"
    ELSE IF Deref(cp).Name = null THEN "publisher.name is mandatory"
    ELSE IF Deref(cp).Namespace = null THEN "publisher.namespace is mandatory"
    ELSE nil

PGPKeyValidate(pk) ==
    IF pk.URL = null THEN "pgp_key[].url is mandatory" ELSE nil

\* Distribution.Validate: `if err := d.Rolie[i].Validate(); err != nil
\* { return nil }`, and nil after the loop
DistributionValidate(d) ==
    IF FirstError([i \in 1..Len(d.Rolie) |-> ROLIEValidate(d.Rolie[i])]) # nil
    THEN nil
    ELSE nil

\* ProviderMetadata.Validate: the loop over pmd.PGPKeys
KeyErrors(p) ==
    FirstError([i \in 1..Len(p.PGPKeys) |-> PGPKeyValidate(p.PGPKeys[i])])

\* ProviderMetadata.Validate
Validate(p) ==
    IF p.CanonicalURL = null THEN "canonical_url is mandatory"
    ELSE IF p.LastUpdated = null THEN "last_updated is mandatory"
    ELSE IF p.MetadataVersion = null THEN "metadata_version is mandatory"
    ELSE IF PublisherValidate(p.Publisher) # nil THEN PublisherValidate(p.Publisher)
    ELSE IF KeyErrors(p) # nil THEN KeyErrors(p)
    ELSE FirstError([i \in 1..Len(p.Distributions) |->
                        DistributionValidate(p.Distributions[i])])

\* a Defaults that sets the role whatever the document holds
DefaultsOverwrite(p) ==
    [p EXCEPT
        !.Role = Ptr(MetadataRoleProvider),
        !.ListOnCSAFAggregators = IF @ = null THEN Ptr(TRUE) ELSE @,
        !.MirrorOnCSAFAggregators = IF @ = null THEN Ptr(TRUE) ELSE @,
        !.MetadataVersion = IF @ = null THEN Ptr(MetadataVersion20) ELSE @]

\* ProviderMetadata.Defaults
Defaults(p) ==
    [p EXCEPT
        !.Role = IF @ = null THEN Ptr(MetadataRoleProvider) ELSE @,
        !.ListOnCSAFAggregators = IF @ = null THEN Ptr(TRUE) ELSE @,
        !.MirrorOnCSAFAggregators = IF @ = null THEN Ptr(TRUE) ELSE @,
        !.MetadataVersion = IF @ = null THEN Ptr(MetadataVersion20) ELSE @]

\* a time.Time: the instant (seconds and nanoseconds since the epoch) and
\* the zone it is shown in (minutes east of UTC)
UTC(t) == [t EXCEPT !.off = 0]

\* ProviderMetadata.SetLastUpdated
SetLastUpdated(p, t) == [p EXCEPT !.LastUpdated = Ptr(UTC(t))]

\* a SetPGP that appends whatever the list holds
SetPGPAppend(p, fingerprint, url) ==
    [p EXCEPT !.PGPKeys =
        Append(@, [Fingerprint |-> fingerprint, URL |-> Ptr(url)])]

\* ProviderMetadata.SetPGP
SetPGP(p, fingerprint, url) ==
    LET hits == { i \in 1..Len(p.PGPKeys) : p.PGPKeys[i].Fingerprint = fingerprint }
    IN  IF hits # {}
        THEN LET i == CHOOSE i \in hits : \A j \in hits : i <= j
             IN  [p EXCEPT !.PGPKeys[i].URL = Ptr(url)]
        ELSE [p EXCEPT !.PGPKeys =
                Append(@, [Fingerprint |-> fingerprint, URL |-> Ptr(url)])]

\* new(ProviderMetadata)
ZeroProviderMetadata ==
    [CanonicalURL |-> null, Distributions |-> <<>>, LastUpdated |-> null,
     ListOnCSAFAggregators |-> null, MetadataVersion |-> null,
     MirrorOnCSAFAggregators |-> null, PGPKeys |-> <<>>, Publisher |-> null,
     Role |-> null]

\* NewProviderMetadata, with the value of time.Now()
NewProviderMetadata(canonicalURL, now) ==
    [SetLastUpdated(Defaults(ZeroProviderMetadata), now)
        EXCEPT !.CanonicalURL = Ptr(canonicalURL)]

(* ---- documents handed to Validate ---- *)

\* the number of list elements (keys, distributions, ROLIE blocks and
\* feeds together) of the largest document
MaxElems == 4

ProviderURLs == { <<"https://example.com", "/provider-metadata.json">>,
                  <<"https://example.com/.well-known/csaf",
                    "/provider-metadata.json">> }

FeedURL == <<"https://example.com/feed-white", ".json">>

KeyURLs == {"https://example.com/key1.asc", "https://example.com/key2.asc"}

Fingerprints == { [hex |-> TRUE, len |-> FingerprintMinLen, id |-> "A"],
                  [hex |-> TRUE, len |-> FingerprintMinLen, id |-> "B"] }

\* time.Time values: instants with and without a sub-second part, shown
\* in UTC or in a zone east of it
Instants == [sec : {0, 7200}, nsec : {0, 500}, off : {0, 60}]

SeqsOfLen(S, n) == [1..n -> S]

FeedInputs == [Summary : {""}, TLPLabel : {null, Ptr("WHITE")},
               URL : {null, Ptr(FeedURL)}]

KeyInputs == { [Fingerprint |-> fp, URL |-> u] :
                  fp \in { CHOOSE f \in Fingerprints : f.id = "A" },
                  u \in { null, Ptr(CHOOSE k \in KeyURLs : TRUE) } }

\* the ROLIE blocks of s list elements: the block and its s - 1 feeds
ROLIEsOfSize(s) == { [Feeds |-> f] : f \in SeqsOfLen(FeedInputs, s - 1) }

RECURSIVE ROLIEListsOfSize(_)
ROLIEListsOfSize(t) ==
    IF t = 0 THEN { <<>> }
    ELSE UNION { { <<r>> \o rest : r \in ROLIEsOfSize(s),
                                   rest \in ROLIEListsOfSize(t - s) } :
                 s \in 1..t }

DistributionsOfSize(s) ==
    { [DirectoryURL |-> "", Rolie |-> rl] : rl \in ROLIEListsOfSize(s - 1) }

RECURSIVE DistributionListsOfSize(_)
DistributionListsOfSize(t) ==
    IF t = 0 THEN { <<>> }
    ELSE UNION { { <<d>> \o rest : d \in DistributionsOfSize(s),
                                   rest \in DistributionListsOfSize(t - s) } :
                 s \in 1..t }

PublisherInputs ==
    {null} \cup
    { Ptr([Category |-> c, Name |-> n, Namespace |-> ns,
           ContactDetails |-> "", IssuingAuthority |-> ""]) :
        c \in {null, Ptr("vendor")},
        n \in {null, Ptr("ACME")},
        ns \in {null, Ptr("https://example.com")} }

\* the documents with kn keys and dn list elements in the distributions
ValidateInputs(kn, dn) ==
    { [CanonicalURL |-> cu, Distributions |-> ds, LastUpdated |-> lu,
       ListOnCSAFAggregators |-> null, MetadataVersion |-> mv,
       MirrorOnCSAFAggregators |-> null, PGPKeys |-> ks, Publisher |-> pb,
       Role |-> ro] :
        cu \in {null, Ptr(CHOOSE u \in ProviderURLs : TRUE)},
        lu \in {null, Ptr([sec |-> 0, nsec |-> 0, off |-> 0])},
        mv \in {null, Ptr(MetadataVersion20)},
        ro \in {null, Ptr(MetadataRoleProvider)},
        pb \in PublisherInputs,
        ks \in SeqsOfLen(KeyInputs, kn),
        ds \in DistributionListsOfSize(dn) }

InitValidate ==
    /\ IdleLocate
    /\ IdleProcess
    /\ IdleKeys
    /\ IdleAuth
    /\ IdleDir
    /\ \E kn \in 0..MaxElems : \E dn \in 0..(MaxElems - kn) :
          pmd \in ValidateInputs(kn, dn)
    /\ mpc = "input"
    /\ verr = "unset"
    /\ buf = <<>>
    /\ loaded = <<>>
    /\ lerr = "unset"

\* a call pmd.Validate()
CallValidate ==
    /\ mpc = "input"
    /\ verr' = Validate(pmd)
    /\ mpc' = "validated"
    /\ UNCHANGED <<pmd, buf, loaded, lerr>>
    /\ UNCHANGED kvars
    /\ UNCHANGED avars
    /\ UNCHANGED dvars
    /\ UNCHANGED lvars
    /\ UNCHANGED pvars

NextValidate == CallValidate

SpecValidate == InitValidate /\ [][NextValidate]_vars

(* ---- Save and LoadProviderMetadata: encoding/json on the types ---- *)

\* a JSON value; JAbsent stands for a key the object does not have
JAbsent == [t |-> "absent"]

JNull == [t |-> "null"]

JString(s) == [t |-> "string", v |-> s]

JBool(b) == [t |-> "bool", v |-> b]

JArray(a) == [t |-> "array", v |-> a]

JObject(o) == [t |-> "object", v |-> o]

\* the "" of a Fingerprint
EmptyFingerprint == [hex |-> TRUE, len |-> 0, id |-> ""]

\* time.RFC3339, "2006-01-02T15:04:05Z07:00": the wall clock reading in
\* whole seconds and the zone; a text is the sequence of its parts
FormatRFC3339(t) == <<t.sec + 60 * t.off, t.off>>

\* time.Parse(time.RFC3339, text): seconds and zone, or seconds, fraction
\* and zone
ParseRFC3339(text) ==
    IF Len(text) = 2
    THEN [err |-> nil,
          v |-> [sec |-> text[1] - 60 * text[2], nsec |-> 0, off |-> text[2]]]
    ELSE IF Len(text) = 3
    THEN [err |-> nil,
          v |-> [sec |-> text[1] - 60 * text[3], nsec |-> text[2],
                 off |-> text[3]]]
    ELSE [err |-> "parsing time", v |-> <<>>]

\* a layout without the zone
TimeStampMarshalTextNoZone(ts) == <<ts.sec + 60 * ts.off>>

\* TimeStamp.MarshalText
TimeStampMarshalText(ts) == FormatRFC3339(ts)

\* TimeStamp.UnmarshalText
TimeStampUnmarshalText(data) == ParseRFC3339(data)

tlpLabelPattern(s) == alternativesUnmarshal(TLPLabels, s)

csafCategoryPattern(s) == alternativesUnmarshal(CSAFCategories, s)

metadataVersionPattern(s) == alternativesUnmarshal(MetadataVersions, s)

metadataRolePattern(s) == alternativesUnmarshal(MetadataRoles, s)

\* json.Marshal of a pointer to a string or a text type
MarshalStringPtr(p) == IF p = null THEN JNull ELSE JString(Deref(p))

\* json.Marshal of a *bool
MarshalBoolPtr(p) == IF p = null THEN JNull ELSE JBool(Deref(p))

\* json.Marshal of a *TimeStamp
MarshalTimeStampPtr(p) ==
    IF p = null THEN JNull ELSE JString(TimeStampMarshalText(Deref(p)))

MarshalFeed(f) ==
    JObject([summary |-> JString(f.Summary),
             tlp_label |-> MarshalStringPtr(f.TLPLabel),
             url |-> MarshalStringPtr(f.URL)])

MarshalROLIE(r) == JObject([feeds |-> JArray([i \in 1..Len(r.Feeds) |-> MarshalFeed(r.Feeds[i])])])

MarshalDistribution(d) ==
    JObject([directory_url |-> IF d.DirectoryURL = "" THEN JAbsent
                               ELSE JString(d.DirectoryURL),
             rolie |-> JArray([i \in 1..Len(d.Rolie) |-> MarshalROLIE(d.Rolie[i])])])

MarshalPGPKey(k) ==
    JObject([fingerprint |-> IF k.Fingerprint.len = 0 THEN JAbsent
                             ELSE JString(k.Fingerprint),
             url |-> MarshalStringPtr(k.URL)])

MarshalPublisher(cp) ==
    JObject([category |-> MarshalStringPtr(cp.Category),
             name |-> MarshalStringPtr(cp.Name),
             namespace |-> MarshalStringPtr(cp.Namespace),
             contact_details |-> IF cp.ContactDetails = "" THEN JAbsent
                                 ELSE JString(cp.ContactDetails),
             issuing_authority |-> IF cp.IssuingAuthority = "" THEN JAbsent
                                   ELSE JString(cp.IssuingAuthority)])

\* ProviderMetadata.Save: what enc.Encode(pmd) writes
Save(p) ==
    JObject([canonical_url |-> MarshalStringPtr(p.CanonicalURL),
             distributions |-> IF p.Distributions = <<>> THEN JAbsent
                               ELSE JArray([i \in 1..Len(p.Distributions) |->
                                   MarshalDistribution(p.Distributions[i])]),
             last_updated |-> MarshalTimeStampPtr(p.LastUpdated),
             list_on_CSAF_aggregators |->
                 MarshalBoolPtr(p.ListOnCSAFAggregators),
             metadata_version |-> MarshalStringPtr(p.MetadataVersion),
             mirror_on_CSAF_aggregators |->
                 MarshalBoolPtr(p.MirrorOnCSAFAggregators),
             pgp_keys |-> IF p.PGPKeys = <<>> THEN JAbsent
                          ELSE JArray([i \in 1..Len(p.PGPKeys) |->
                                   MarshalPGPKey(p.PGPKeys[i])]),
             publisher |-> IF p.Publisher = null THEN JNull
                           ELSE MarshalPublisher(Deref(p.Publisher)),
             role |-> MarshalStringPtr(p.Role)])

\* the result of decoding one value: the error, or the value
Ok(v) == [err |-> nil, v |-> v]

Err(e) == [err |-> e, v |-> <<>>]

\* the first error among the results rs
ErrOf(rs) ==
    LET bad == { i \in DOMAIN rs : rs[i].err # nil }
    IN  IF bad = {} THEN nil
        ELSE rs[CHOOSE i \in bad : \A j \in bad : i <= j].err

\* json.Unmarshal into a pointer to a text type; matches says whether
\* the type's UnmarshalText accepts the string
UnmarshalTextPtr(j, matches) ==
    IF j.t \in {"absent", "null"} THEN Ok(null)
    ELSE IF j.t # "string" THEN Err("json: cannot unmarshal")
    ELSE IF matches THEN Ok(Ptr(j.v))
    ELSE Err("does not match pattern")

IsString(j) == j.t = "string"

\* the elements of a JSON array
Elements(j) == IF j.t = "array" THEN j.v ELSE <<>>

UnmarshalBoolPtr(j) ==
    IF j.t \in {"absent", "null"} THEN Ok(null)
    ELSE IF j.t # "bool" THEN Err("json: cannot unmarshal")
    ELSE Ok(Ptr(j.v))

\* json.Unmarshal into a string with omitempty on the way out
UnmarshalString(j) ==
    IF j.t \in {"absent", "null"} THEN Ok("")
    ELSE IF j.t # "string" THEN Err("json: cannot unmarshal")
    ELSE Ok(j.v)

UnmarshalTimeStampPtr(j) ==
    IF j.t \in {"absent", "null"} THEN Ok(null)
    ELSE IF j.t # "string" THEN Err("json: cannot unmarshal")
    ELSE LET r == TimeStampUnmarshalText(j.v)
         IN  IF r.err # nil THEN Err(r.err) ELSE Ok(Ptr(r.v))

\* json.Unmarshal into a slice; rs are the results of decoding the
\* elements
UnmarshalList(j, rs) ==
    IF j.t \in {"absent", "null"} THEN Ok(<<>>)
    ELSE IF j.t # "array" THEN Err("json: cannot unmarshal")
    ELSE IF ErrOf(rs) # nil THEN Err(ErrOf(rs))
    ELSE Ok([i \in 1..Len(rs) |-> rs[i].v])

UnmarshalFeed(j) ==
    LET s == UnmarshalString(j.v.summary)
        l == UnmarshalTextPtr(j.v.tlp_label,
                IsString(j.v.tlp_label) /\ tlpLabelPattern(j.v.tlp_label.v))
        u == UnmarshalTextPtr(j.v.url,
                IsString(j.v.url) /\ jsonURLPattern(j.v.url.v))
        e == ErrOf(<<s, l, u>>)
    IN  IF e # nil THEN Err(e)
        ELSE Ok([Summary |-> s.v, TLPLabel |-> l.v, URL |-> u.v])

UnmarshalROLIE(j) ==
    LET f == UnmarshalList(j.v.feeds,
                [i \in 1..Len(Elements(j.v.feeds)) |->
                    UnmarshalFeed(Elements(j.v.feeds)[i])])
    IN  IF f.err # nil THEN Err(f.err) ELSE Ok([Feeds |-> f.v])

UnmarshalDistribution(j) ==
    LET d == UnmarshalString(j.v.directory_url)
        r == UnmarshalList(j.v.rolie,
                [i \in 1..Len(Elements(j.v.rolie)) |->
                    UnmarshalROLIE(Elements(j.v.rolie)[i])])
        e == ErrOf(<<d, r>>)
    IN  IF e # nil THEN Err(e)
        ELSE Ok([DirectoryURL |-> d.v, Rolie |-> r.v])

UnmarshalPGPKey(j) ==
    LET f == IF j.v.fingerprint.t \in {"absent", "null"}
             THEN Ok(EmptyFingerprint)
             ELSE IF fingerprintPattern(j.v.fingerprint.v)
             THEN Ok(j.v.fingerprint.v)
             ELSE Err("does not match pattern")
        u == UnmarshalTextPtr(j.v.url, TRUE)
        e == ErrOf(<<f, u>>)
    IN  IF e # nil THEN Err(e) ELSE Ok([Fingerprint |-> f.v, URL |-> u.v])

UnmarshalPublisherPtr(j) ==
    IF j.t \in {"absent", "null"} THEN Ok(null)
    ELSE
    LET c == UnmarshalTextPtr(j.v.category,
                IsString(j.v.category) /\ csafCategoryPattern(j.v.category.v))
        n == UnmarshalTextPtr(j.v.name, TRUE)
        ns == UnmarshalTextPtr(j.v.namespace, TRUE)
        cd == UnmarshalString(j.v.contact_details)
        ia == UnmarshalString(j.v.issuing_authority)
        e == ErrOf(<<c, n, ns, cd, ia>>)
    IN  IF e # nil THEN Err(e)
        ELSE Ok(Ptr([Category |-> c.v, Name |-> n.v, Namespace |-> ns.v,
                     ContactDetails |-> cd.v, IssuingAuthority |-> ia.v]))

\* dec.Decode(&pmd): a text that is no JSON, or a JSON value that is no
\* object, is an error, but for null, which leaves pmd as it is
Decode(j) ==
    IF j.t = "null" THEN Ok(ZeroProviderMetadata)
    ELSE IF j.t # "object" THEN Err("json: cannot unmarshal")
    ELSE
    LET cu == UnmarshalTextPtr(j.v.canonical_url,
                IsString(j.v.canonical_url) /\ providerURLPattern(j.v.canonical_url.v))
        ds == UnmarshalList(j.v.distributions,
                [i \in 1..Len(Elements(j.v.distributions)) |->
                    UnmarshalDistribution(Elements(j.v.distributions)[i])])
        lu == UnmarshalTimeStampPtr(j.v.last_updated)
        li == UnmarshalBoolPtr(j.v.list_on_CSAF_aggregators)
        mv == UnmarshalTextPtr(j.v.metadata_version,
                IsString(j.v.metadata_version) /\ metadataVersionPattern(j.v.metadata_version.v))
        mi == UnmarshalBoolPtr(j.v.mirror_on_CSAF_aggregators)
        ks == UnmarshalList(j.v.pgp_keys,
                [i \in 1..Len(Elements(j.v.pgp_keys)) |->
                    UnmarshalPGPKey(Elements(j.v.pgp_keys)[i])])
        pb == UnmarshalPublisherPtr(j.v.publisher)
        ro == UnmarshalTextPtr(j.v.role,
                IsString(j.v.role) /\ metadataRolePattern(j.v.role.v))
        e == ErrOf(<<cu, ds, lu, li, mv, mi, ks, pb, ro>>)
    IN  IF e # nil THEN Err(e)
        ELSE Ok([CanonicalURL |-> cu.v, Distributions |-> ds.v,
                 LastUpdated |-> lu.v, ListOnCSAFAggregators |-> li.v,
                 MetadataVersion |-> mv.v, MirrorOnCSAFAggregators |-> mi.v,
                 PGPKeys |-> ks.v, Publisher |-> pb.v, Role |-> ro.v])

\* a LoadProviderMetadata that does not validate
LoadProviderMetadataUnchecked(r) ==
    LET d == Decode(r)
    IN  IF d.err # nil THEN [pmd |-> null, err |-> d.err]
        ELSE [pmd |-> Ptr(Defaults(d.v)), err |-> nil]

\* LoadProviderMetadata: the pair it returns
LoadProviderMetadata(r) ==
    LET d == Decode(r)
    IN  IF d.err # nil THEN [pmd |-> null, err |-> d.err]
        ELSE IF Validate(d.v) # nil THEN [pmd |-> null, err |-> Validate(d.v)]
        ELSE [pmd |-> Ptr(Defaults(d.v)), err |-> nil]

(* ---- a caller that builds a document, saves it and loads it ---- *)

\* the number of keys of the largest document built
MaxKeys == 2

\* the canonical URLs handed to NewProviderMetadata
CanonicalURLInputs == ProviderURLs \cup { <<"https://example.com/feed", ".json">> }

\* the fingerprints handed to SetPGP: full ones and a short one
FingerprintInputs == Fingerprints \cup { [hex |-> TRUE, len |-> 8, id |-> "C"] }

PublisherChoices ==
    { [Category |-> Ptr("vendor"), Name |-> Ptr("ACME"),
       Namespace |-> Ptr("https://example.com"),
       ContactDetails |-> "", IssuingAuthority |-> ""],
      [Category |-> Ptr("vendor"), Name |-> Ptr("ACME"),
       Namespace |-> Ptr("https://example.com"),
       ContactDetails |-> "cert@example.com", IssuingAuthority |-> ""],
      [Category |-> Ptr("reseller"), Name |-> Ptr("ACME"),
       Namespace |-> Ptr("https://example.com"),
       ContactDetails |-> "", IssuingAuthority |-> ""],
      [Category |-> Ptr("vendor"), Name |-> null,
       Namespace |-> Ptr("https://example.com"),
       ContactDetails |-> "", IssuingAuthority |-> ""] }

DistributionChoices ==
    { [DirectoryURL |-> "https://example.com/white", Rolie |-> <<>>],
      [DirectoryURL |-> "",
       Rolie |-> << [Feeds |-> << [Summary |-> "white advisories",
                                   TLPLabel |-> Ptr("WHITE"),
                                   URL |-> Ptr(FeedURL)] >>] >>],
      [DirectoryURL |-> "", Rolie |-> << [Feeds |-> <<>>] >>] }

\* no SetPGP call has been made
NeverSet == [fp \in FingerprintInputs |-> "none"]

InitRoundTrip ==
    /\ IdleLocate
    /\ IdleProcess
    /\ IdleAuth
    /\ IdleDir
    /\ keys0 = <<>>
    /\ lastSet = NeverSet
    /\ \E canonicalURL \in CanonicalURLInputs, now \in Instants :
          pmd = NewProviderMetadata(canonicalURL, now)
    /\ mpc = "built"
    /\ verr = "unset"
    /\ buf = <<>>
    /\ loaded = <<>>
    /\ lerr = "unset"

\* pmd.Publisher = &Publisher{...}
SetPublisher ==
    /\ mpc = "built"
    /\ pmd.Publisher = null
    /\ \E cp \in PublisherChoices : pmd' = [pmd EXCEPT !.Publisher = Ptr(cp)]
    /\ UNCHANGED <<mpc, verr, buf, loaded, lerr>>
    /\ UNCHANGED kvars
    /\ UNCHANGED avars
    /\ UNCHANGED dvars
    /\ UNCHANGED lvars
    /\ UNCHANGED pvars

\* pmd.ListOnCSAFAggregators = &false
SetListing ==
    /\ mpc = "built"
    /\ pmd.ListOnCSAFAggregators = Ptr(TRUE)
    /\ pmd' = [pmd EXCEPT !.ListOnCSAFAggregators = Ptr(FALSE)]
    /\ UNCHANGED <<mpc, verr, buf, loaded, lerr>>
    /\ UNCHANGED kvars
    /\ UNCHANGED avars
    /\ UNCHANGED dvars
    /\ UNCHANGED lvars
    /\ UNCHANGED pvars

\* pmd.Distributions = append(pmd.Distributions, d), once
AddDistribution ==
    /\ mpc = "built"
    /\ pmd.Distributions = <<>>
    /\ \E d \in DistributionChoices :
          pmd' = [pmd EXCEPT !.Distributions = Append(@, d)]
    /\ UNCHANGED <<mpc, verr, buf, loaded, lerr>>
    /\ UNCHANGED kvars
    /\ UNCHANGED avars
    /\ UNCHANGED dvars
    /\ UNCHANGED lvars
    /\ UNCHANGED pvars

\* a call pmd.SetPGP(fingerprint, url)
CallSetPGP ==
    /\ mpc = "built"
    /\ \E fingerprint \in FingerprintInputs, url \in KeyURLs :
          /\ \/ Len(pmd.PGPKeys) < MaxKeys
             \/ \E i \in 1..Len(pmd.PGPKeys) :
                   pmd.PGPKeys[i].Fingerprint = fingerprint
          /\ pmd' = SetPGP(pmd, fingerprint, url)
          /\ lastSet' = [lastSet EXCEPT ![fingerprint] = url]
    /\ UNCHANGED <<mpc, verr, buf, loaded, lerr, keys0>>
    /\ UNCHANGED avars
    /\ UNCHANGED dvars
    /\ UNCHANGED lvars
    /\ UNCHANGED pvars

\* a call pmd.Save(w), on a writer that takes it all
CallSave ==
    /\ mpc = "built"
    /\ buf' = Save(pmd)
    /\ mpc' = "saved"
    /\ UNCHANGED <<pmd, verr, loaded, lerr>>
    /\ UNCHANGED kvars
    /\ UNCHANGED avars
    /\ UNCHANGED dvars
    /\ UNCHANGED lvars
    /\ UNCHANGED pvars

\* a call LoadProviderMetadata(r), on a reader of what was saved
CallLoad ==
    /\ mpc = "saved"
    /\ LET r == LoadProviderMetadata(buf)
       IN  /\ loaded' = r.pmd
           /\ lerr' = r.err
    /\ mpc' = "loaded"
    /\ UNCHANGED <<pmd, verr, buf>>
    /\ UNCHANGED kvars
    /\ UNCHANGED avars
    /\ UNCHANGED dvars
    /\ UNCHANGED lvars
    /\ UNCHANGED pvars

NextRoundTrip ==
    \/ SetPublisher
    \/ SetListing
    \/ AddDistribution
    \/ CallSetPGP
    \/ CallSave
    \/ CallLoad

SpecRoundTrip == InitRoundTrip /\ [][NextRoundTrip]_vars

(* ---- a caller that applies Defaults to a document, twice ---- *)

DefaultsInputs ==
    [CanonicalURL : {null} \cup { Ptr(u) : u \in CanonicalURLInputs },
     Distributions : { <<>> } \cup { <<d>> : d \in DistributionChoices },
     LastUpdated : {null, Ptr([sec |-> 7200, nsec |-> 500, off |-> 0])},
     ListOnCSAFAggregators : {null, Ptr(TRUE), Ptr(FALSE)},
     MetadataVersion : {null} \cup { Ptr(v) : v \in MetadataVersions },
     MirrorOnCSAFAggregators : {null, Ptr(TRUE), Ptr(FALSE)},
     PGPKeys : SeqsOfLen(KeyInputs, 0) \cup SeqsOfLen(KeyInputs, 1),
     Publisher : {null} \cup { Ptr(cp) : cp \in PublisherChoices },
     Role : {null} \cup { Ptr(r) : r \in MetadataRoles }]

InitDefaults ==
    /\ IdleLocate
    /\ IdleProcess
    /\ IdleKeys
    /\ IdleAuth
    /\ IdleDir
    /\ pmd \in DefaultsInputs
    /\ mpc = "input"
    /\ verr = "unset"
    /\ buf = <<>>
    /\ loaded = <<>>
    /\ lerr = "unset"

\* a call pmd.Defaults(), the first and the second
CallDefaults ==
    /\ mpc \in {"input", "defaulted"}
    /\ pmd' = Defaults(pmd)
    /\ mpc' = IF mpc = "input" THEN "defaulted" ELSE "defaulted twice"
    /\ UNCHANGED <<verr, buf, loaded, lerr>>
    /\ UNCHANGED kvars
    /\ UNCHANGED avars
    /\ UNCHANGED dvars
    /\ UNCHANGED lvars
    /\ UNCHANGED pvars

NextDefaults == CallDefaults

SpecDefaults == InitDefaults /\ [][NextDefaults]_vars

(* ---- a caller that loads a document from a reader ---- *)

\* what a reader may hold that is no JSON object: a text that is no JSON,
\* and JSON values of other kinds
NoObjects == { [t |-> "syntax error"], JNull, JArray(<<>>) }

InitLoad ==
    /\ IdleLocate
    /\ IdleProcess
    /\ IdleKeys
    /\ IdleAuth
    /\ IdleDir
    /\ pmd = <<>>
    /\ mpc = "saved"
    /\ verr = "unset"
    /\ \/ buf \in NoObjects
       \/ \E d \in DefaultsInputs : buf = Save(d)
    /\ loaded = <<>>
    /\ lerr = "unset"

NextLoad == CallLoad

SpecLoad == InitLoad /\ [][NextLoad]_vars

(* ---- a caller that makes SetPGP calls on a document with keys ---- *)

\* the key lists found in the document: up to MaxKeys keys, with or
\* without URL, the same fingerprint possibly more than once
InitialKeys ==
    UNION { SeqsOfLen([Fingerprint : FingerprintInputs,
                       URL : {null} \cup { Ptr(u) : u \in KeyURLs }], n) :
            n \in 0..MaxKeys }

InitSetPGP ==
    /\ IdleLocate
    /\ IdleProcess
    /\ IdleAuth
    /\ IdleDir
    /\ keys0 \in InitialKeys
    /\ pmd = [ZeroProviderMetadata EXCEPT !.PGPKeys = keys0]
    /\ lastSet = NeverSet
    /\ mpc = "built"
    /\ verr = "unset"
    /\ buf = <<>>
    /\ loaded = <<>>
    /\ lerr = "unset"

NextSetPGP == CallSetPGP

SpecSetPGP == InitSetPGP /\ [][NextSetPGP]_vars

----------------------------------------------------------------------------
(* Claims about locateProviderMetadata, checked under SpecLocate           *)

\* the documented probing order, spelled out
ExpectedLocations ==
    << ".well-known/csaf", "security/data/csaf", "advisories/csaf", "security/csaf" >>

ExpectedURL(k) == httpsDomain(domain) \o <<"/", ExpectedLocations[k]>>

\* bodies that decode to a document (a non-null JSON value)
DocBodies == {"{doc1}"}

IsDocResponse(res) ==
    res.terr = nil /\ res.status = StatusOK /\ res.body \in DocBodies

IsSecurityTxtFetch(j) == fetched[j].url = SecurityTxtURL(httpsDomain(domain))

\* C1: the four well-known paths are probed in the fixed order; when probes
\* 1..k-1 end in NotFound and probe k yields a document, exactly the probes
\* 1..k were made, in that order, security.txt was not fetched and the
\* resolver returned success.
C1_FallbackOrder ==
    \A k \in 1..4 :
        ( /\ Len(fetched) >= k
          /\ \A j \in 1..(k - 1) : fetched[j].err = errNotFound
          /\ IsDocResponse(fetched[k].res) )
        => /\ Len(fetched) = k
           /\ \A j \in 1..k : fetched[j].url = ExpectedURL(j)
           /\ \A j \in 1..k : ~IsSecurityTxtFetch(j)
           /\ lpc = "done"
           /\ lret = nil

\* a provider that only answers at well-known path #3
C1_Witness ==
    /\ lpc = "done" /\ lret = nil
    /\ Len(fetched) = 3
    /\ fetched[1].err = errNotFound /\ fetched[2].err = errNotFound
    /\ IsDocResponse(fetched[3].res)
    /\ fetched[3].url = ExpectedURL(3)

\* C4: a transport error of any fetch (a well-known path, security.txt, the
\* URL taken from security.txt) is the last fetch made, and the resolver
\* returns that very error.
C4_TransportErrorAborts ==
    \A j \in 1..Len(fetched) :
        fetched[j].res.terr # nil
        => /\ j = Len(fetched)
           /\ lpc = "done"
           /\ lret = fetched[j].res.terr

\* the fetch of the URL named by security.txt times out
C4_Witness ==
    /\ lpc = "done"
    /\ Len(fetched) = 6
    /\ fetched[6].res.terr = "errTimeout"
    /\ lret = "errTimeout"

IsUndecodable(res) ==
    res.terr = nil /\ res.status = StatusOK /\ res.body = "{bad"

\* C5 as stated: a body at a well-known path that fails JSON decoding aborts
\* the resolution with an error, and nothing is fetched afterwards.
C5_DecodeErrorAborts ==
    \A j \in 1..Len(fetched) :
        (j <= 4 /\ IsUndecodable(fetched[j].res))
        => /\ j = Len(fetched)
           /\ lpc = "done"
           /\ lret \notin {nil, "running"}

\* C5 as amended: a body at a well-known path that fails JSON decoding counts
\* as NotFound: nothing is accepted from it, the resolver does not return
\* there, and the next fetch is the next well-known path, or security.txt
\* after the fourth.
C5_DecodeErrorIsNotFound ==
    \A j \in 1..Len(fetched) :
        (j <= 4 /\ IsUndecodable(fetched[j].res))
        => /\ fetched[j].err = errNotFound
           /\ j = Len(fetched) =>
                /\ lret = "running"
                /\ w.metadataProvider = nil
                /\ lpc = IF j < 4 THEN "probe" ELSE "sectxt"
           /\ j < Len(fetched) =>
                fetched[j + 1].url =
                    IF j < 4 THEN ExpectedURL(j + 1)
                    ELSE SecurityTxtURL(httpsDomain(domain))

\* undecodable body at path #2, document at path #3
C5_Witness ==
    /\ lpc = "done" /\ lret = nil
    /\ Len(fetched) = 3
    /\ IsUndecodable(fetched[2].res)
    /\ IsDocResponse(fetched[3].res)

\* C6: security.txt is fetched only as the fifth fetch, after the four
\* well-known probes ended without a document and without hard error; a
\* non-200 answer ends the resolution with errNotFound, an answer without a
\* CSAF URL ends it with the explicit error, both without a further fetch;
\* otherwise the first extracted URL is the location and the only URL
\* fetched afterwards.
C6_SecurityTxtFallback ==
    \A j \in 1..Len(fetched) :
        IsSecurityTxtFetch(j)
        => LET res == fetched[j].res
               urls == ExtractProviderURL(res).urls
               read == res.terr = nil /\ res.status = StatusOK /\ ~res.readErr
           IN  /\ j = 5
               /\ \A i \in 1..4 :
                    /\ fetched[i].url = ExpectedURL(i)
                    /\ fetched[i].res.terr = nil
                    /\ ~IsDocResponse(fetched[i].res)
               /\ (res.terr = nil /\ res.status # StatusOK)
                    => Len(fetched) = 5 /\ lpc = "done" /\ lret = errNotFound
               /\ (read /\ urls = <<>>)
                    => /\ Len(fetched) = 5 /\ lpc = "done"
                       /\ lret = errNoPMDInSecurityTxt
               /\ (read /\ urls # <<>>)
                    => /\ w.loc = urls[1]
                       /\ \/ lpc = "final" /\ Len(fetched) = 5
                          \/ /\ lpc = "done" /\ Len(fetched) = 6
                             /\ fetched[6].url = urls[1]

\* security.txt names two URLs; the first one is fetched and holds a document
C6_Witness ==
    /\ lpc = "done" /\ lret = nil
    /\ Len(fetched) = 6
    /\ Len(ExtractProviderURL(fetched[5].res).urls) = 2
    /\ fetched[5].res.lines[1].value # fetched[5].res.lines[2].value
    /\ fetched[6].url = fetched[5].res.lines[1].value
    /\ IsDocResponse(fetched[6].res)

----------------------------------------------------------------------------
(* Claims about removeOrphans and process, checked under SpecProcess       *)

\* the published folder and its entries
Pub == PublishedPath(cfg.Web)

EntryPath(n) == Join(Pub, <<n>>)

\* the entry as it was when process was called
Entry0(n) == Kind(fs0, EntryPath(n))

\* where the link `n` resolved to when process was called
Target0(n) == EvalSymlinks(fs0, EntryPath(n))

\* an entry that was a link, not named after a provider, resolving to a directory
OrphanDirLink0(n) ==
    /\ Entry0(n).kind = "link"
    /\ n \notin cfg.Providers
    /\ Target0(n).err = nil
    /\ Kind(fs0, Target0(n).path).kind = "dir"

\* inside the working folder, at any depth
InsideFolder(r) == IsPrefix(W, r) /\ r # W

\* an immediate child of the working folder
ChildOfFolder(r) == IsPrefix(W, r) /\ Len(r) = Len(W) + 1

TreeGone(r) == \A q \in DOMAIN fs : IsPrefix(r, q) => fs[q].kind = "none"

\* the outcomes of an iteration in which a call failed
FailedOutcomes == {"infoErr", "evalErr", "statErr", "removeErr", "removeAllErr"}

\* the loop ranged over `n` and every call made for it succeeded
SweptWithoutFailure(n) ==
    \E i \in 1..Len(swept) :
        swept[i].name = n /\ swept[i].outcome \notin FailedOutcomes

PublishedFolderRemoved ==
    \E i \in 1..Len(swept) :
        /\ swept[i].outcome \in {"dirRemoved", "removeAllErr"}
        /\ IsPrefix(swept[i].r, Pub)

NothingOutsideDeleted ==
    \A q \in DOMAIN fs :
        (fs0[q].kind \in {"file", "dir"} /\ ~IsPrefix(W, q)) => fs[q] = fs0[q]

\* an orphan link to a directory outside the working folder is removed
\* (unless a call made for it failed) and the directory stays
OutsideTargetStays ==
    \A n \in Names :
        (OrphanDirLink0(n) /\ ~IsPrefix(W, Target0(n).path))
        => /\ Kind(fs, Target0(n).path).kind = "dir"
           /\ (oret = nil /\ SweptWithoutFailure(n))
                => Kind(fs, EntryPath(n)).kind = "none"

\* C3: for any initial file system, nothing outside the working folder is
\* deleted, no published entry other than a symbolic link is removed, and
\* an orphan link to a directory outside the working folder is removed
\* while the directory stays.
C3_OwnershipBoundary ==
    /\ NothingOutsideDeleted
    /\ \A n \in Names :
         Entry0(n).kind \in {"file", "dir"} => Kind(fs, EntryPath(n)) = Entry0(n)
    /\ OutsideTargetStays

\* what holds of C3: a published entry other than a link is removed only
\* when the published folder itself lies in a directory the sweep removes
\* as the target of an orphan link
C3_BoundaryButPublishedFolder ==
    /\ NothingOutsideDeleted
    /\ \A n \in Names :
         (Entry0(n).kind \in {"file", "dir"} /\ ~PublishedFolderRemoved)
         => Kind(fs, EntryPath(n)) = Entry0(n)
    /\ OutsideTargetStays

SyncOps == {"interim", "full"}

EnsureFailed == \E i \in 1..Len(calls) : calls[i].op = "ensureDir" /\ calls[i].err # nil

NoSweepNoSync ==
    \A i \in 1..Len(calls) : calls[i].op \notin ({"removeOrphans"} \cup SyncOps)

\* the sweep has returned nil and exactly one sync was started after it,
\* the interim one iff cfg.Interim
SweepThenOneSync ==
    /\ oret = nil /\ entries = <<>>
    /\ Len(calls) = 4
    /\ calls[3].op = "removeOrphans"
    /\ calls[4].op = (IF cfg.Interim THEN "interim" ELSE "full")
    /\ pret = calls[4].err

\* C7 as stated: when process has returned, either an ensureDir failed, its
\* error is the result and neither sweep nor sync was started, or the sweep
\* ran to completion, then exactly one sync ran, interim iff cfg.Interim.
C7_ProcessOrder ==
    ppc = "done" =>
        IF EnsureFailed
        THEN /\ pret = calls[Len(calls)].err
             /\ NoSweepNoSync
        ELSE SweepThenOneSync

\* C7 as amended: as stated, except that when both folders are ensured and
\* removeOrphans returns an error (the published folder cannot be listed or
\* the working folder's path cannot be resolved), process returns that
\* error and no sync is started; a sync is never started before the sweep
\* has returned nil.
C7_ProcessOrderAmended ==
    /\ ppc = "done" =>
        IF EnsureFailed
        THEN /\ pret = calls[Len(calls)].err
             /\ pret # nil
             /\ NoSweepNoSync
        ELSE IF oret # nil
        THEN /\ oret # "running"
             /\ pret = oret
             /\ Len(calls) = 3
             /\ \A i \in 1..Len(calls) : calls[i].op \notin SyncOps
        ELSE SweepThenOneSync
    /\ \A i \in 1..Len(calls) :
         calls[i].op \in SyncOps
         => /\ i = 4
            /\ oret = nil /\ entries = <<>>
            /\ \A j \in 1..3 : calls[j].err = nil

\* interim mode, two entries swept, the sync ran and failed
C7_Witness ==
    /\ ppc = "done"
    /\ cfg.Interim
    /\ Len(swept) = 2
    /\ Len(calls) = 4
    /\ calls[4].op = "interim"
    /\ pret = "errSync"

\* the published folder is a regular file: ensureDir accepts it, the sweep
\* cannot list it
C7_WitnessSweepFails ==
    /\ ppc = "done"
    /\ ~EnsureFailed
    /\ oret = "ENOTDIR"
    /\ pret = "ENOTDIR"

\* the head of `entries` is an orphan link whose target is dangling or is
\* no directory
DanglingOrNoDir(n) ==
    /\ n \notin cfg.Providers
    /\ Kind(fs, EntryPath(n)).kind = "link"
    /\ LET ev == EvalSymlinks(fs, EntryPath(n))
       IN  ev.err # nil \/ Kind(fs, ev.path).kind # "dir"

LastSwept == swept[Len(swept)]

\* the names of the entries the published folder held when the sweep began
Listed == { n \in Names : Entry0(n).kind # "none" }

\* what C8 says of every state: an error is returned only before the loop,
\* and a sweep that returned nil has ranged over every entry once
C8_State ==
    /\ oret \notin {"running", nil} => swept = <<>>
    /\ oret = nil =>
         /\ Len(swept) = Cardinality(Listed)
         /\ { swept[i].name : i \in 1..Len(swept) } = Listed

\* what C8 says of every iteration: an orphan link whose target is dangling
\* or no directory stays, as does everything else; an iteration in which a
\* call before the removal of the link fails changes nothing; after any
\* iteration the loop goes on with the rest or removeOrphans returns nil
C8_Step ==
    ppc = "sweep" =>
        /\ Len(swept') = Len(swept) + 1
        /\ swept'[Len(swept')].name = Head(entries)
        /\ DanglingOrNoDir(Head(entries)) => fs' = fs
        /\ swept'[Len(swept')].outcome \in {"infoErr", "evalErr", "statErr", "removeErr"}
             => fs' = fs
        /\ entries' = Tail(entries)
        /\ IF entries' = <<>>
           THEN ppc' = "sync" /\ oret' = nil
           ELSE ppc' = "sweep" /\ oret' = "running"

Bare(p) == p.PGPKeys = <<>> /\ p.Distributions = <<>>

RequiredScalarsSet(p) ==
    /\ p.CanonicalURL # null
    /\ p.LastUpdated # null
    /\ p.MetadataVersion # null
    /\ p.Role # null
    /\ p.Publisher # null
    /\ Deref(p.Publisher).Category # null
    /\ Deref(p.Publisher).Name # null
    /\ Deref(p.Publisher).Namespace # null

KeyWithoutURL(p) == \E i \in 1..Len(p.PGPKeys) : p.PGPKeys[i].URL = null

ROLIEWithoutFeeds(p) ==
    \E i \in 1..Len(p.Distributions) :
        \E j \in 1..Len(p.Distributions[i].Rolie) :
            p.Distributions[i].Rolie[j].Feeds = <<>>

FeedIncomplete(p) ==
    \E i \in 1..Len(p.Distributions) :
        \E j \in 1..Len(p.Distributions[i].Rolie) :
            \E k \in 1..Len(p.Distributions[i].Rolie[j].Feeds) :
                LET f == p.Distributions[i].Rolie[j].Feeds[k]
                IN  f.TLPLabel = null \/ f.URL = null

ViolatesRequired(p) ==
    \/ ~RequiredScalarsSet(p)
    \/ KeyWithoutURL(p)
    \/ ROLIEWithoutFeeds(p)
    \/ FeedIncomplete(p)

\* C9: Validate returns an error for every document that violates a
\* required-field invariant (canonical URL, last-updated, metadata version,
\* role, publisher with category, name and namespace, a key without URL, a
\* ROLIE block with zero feeds, a feed without TLP label or URL), and nil
\* for every document with all required fields and empty key and
\* distribution lists.
C9_ValidateRejectsViolations ==
    mpc = "validated" =>
        /\ ViolatesRequired(pmd) => verr # nil
        /\ (RequiredScalarsSet(pmd) /\ Bare(pmd)) => verr = nil

\* What Validate does check: the canonical URL, last-updated, the metadata
\* version, the publisher with its three fields and the URL of every key;
\* neither the role nor anything below a distribution.
C9_ValidateChecks ==
    mpc = "validated" =>
        (verr # nil <=>
            \/ pmd.CanonicalURL = null
            \/ pmd.LastUpdated = null
            \/ pmd.MetadataVersion = null
            \/ PublisherValidate(pmd.Publisher) # nil
            \/ KeyWithoutURL(pmd))

\* a document whose only flaw is a ROLIE block without feeds has been
\* validated
C9_WitnessEmptyROLIE ==
    /\ mpc = "validated"
    /\ RequiredScalarsSet(pmd)
    /\ ~KeyWithoutURL(pmd)
    /\ ~FeedIncomplete(pmd)
    /\ ROLIEWithoutFeeds(pmd)
    /\ verr = nil

(* ---- Save and LoadProviderMetadata ---- *)

\* every field a pattern is attached to matches it
MatchesPatterns(p) ==
    /\ p.CanonicalURL # null => providerURLPattern(Deref(p.CanonicalURL))
    /\ p.MetadataVersion # null =>
          metadataVersionPattern(Deref(p.MetadataVersion))
    /\ p.Role # null => metadataRolePattern(Deref(p.Role))
    /\ (p.Publisher # null /\ Deref(p.Publisher).Category # null) =>
          csafCategoryPattern(Deref(Deref(p.Publisher).Category))
    /\ \A i \in 1..Len(p.PGPKeys) :
          p.PGPKeys[i].Fingerprint.len = 0
             \/ fingerprintPattern(p.PGPKeys[i].Fingerprint)
    /\ \A i \in 1..Len(p.Distributions) :
          \A j \in 1..Len(p.Distributions[i].Rolie) :
             \A k \in 1..Len(p.Distributions[i].Rolie[j].Feeds) :
                LET f == p.Distributions[i].Rolie[j].Feeds[k]
                IN  /\ f.TLPLabel # null => tlpLabelPattern(Deref(f.TLPLabel))
                    /\ f.URL # null => jsonURLPattern(Deref(f.URL))

\* a valid document: Validate accepts it and its fields match their patterns
ValidDocument(p) == Validate(p) = nil /\ MatchesPatterns(p)

\* Time.Equal
SameInstant(a, b) == a.sec = b.sec /\ a.nsec = b.nsec

\* equal documents: equal fields, and last-updated the same instant
SameDocument(a, b) ==
    /\ [a EXCEPT !.LastUpdated = null] = [b EXCEPT !.LastUpdated = null]
    /\ (a.LastUpdated = null) = (b.LastUpdated = null)
    /\ a.LastUpdated # null =>
          SameInstant(Deref(a.LastUpdated), Deref(b.LastUpdated))

\* the document with last-updated cut down to whole seconds
TruncatedToSeconds(p) ==
    [p EXCEPT !.LastUpdated = IF @ = null THEN null
                              ELSE Ptr([Deref(@) EXCEPT !.nsec = 0])]

\* C10 as stated: for every valid document built with NewProviderMetadata
\* from an arbitrary instant, sub-second part included, Save followed by
\* LoadProviderMetadata succeeds and yields a document equal to the
\* original once Defaults is applied to both, last-updated included.
C10_RoundTrip ==
    (mpc = "loaded" /\ ValidDocument(pmd)) =>
        /\ lerr = nil
        /\ loaded # null
        /\ SameDocument(Defaults(Deref(loaded)), Defaults(pmd))

\* C10: for every valid document built with NewProviderMetadata, Save
\* followed by LoadProviderMetadata succeeds and yields, once Defaults is
\* applied to both, the original with last-updated cut down to whole
\* seconds; the two are equal exactly when the instant has no sub-second
\* part.
C10_RoundTripToTheSecond ==
    (mpc = "loaded" /\ ValidDocument(pmd)) =>
        /\ lerr = nil
        /\ loaded # null
        /\ SameDocument(Defaults(Deref(loaded)),
                        Defaults(TruncatedToSeconds(pmd)))
        /\ SameDocument(Defaults(Deref(loaded)), Defaults(pmd))
              <=> Deref(pmd.LastUpdated).nsec = 0

\* a valid document with a key, a distribution and a sub-second
\* last-updated, built in a zone east of UTC, has been saved and loaded
C10_Witness ==
    /\ mpc = "loaded"
    /\ ValidDocument(pmd)
    /\ Deref(pmd.LastUpdated).nsec # 0
    /\ Deref(pmd.LastUpdated).sec # 0
    /\ pmd.PGPKeys # <<>>
    /\ pmd.Distributions # <<>>
    /\ pmd.ListOnCSAFAggregators = Ptr(FALSE)
    /\ lerr = nil
    /\ loaded # null

(* ---- ProviderMetadata.SetPGP ---- *)

FingerprintsOf(ks) == { ks[i].Fingerprint : i \in 1..Len(ks) }

DistinctFingerprints(ks) ==
    \A i, j \in 1..Len(ks) : ks[i].Fingerprint = ks[j].Fingerprint => i = j

EverSet == { fp \in FingerprintInputs : lastSet[fp] # "none" }

\* the URL the list ks holds for fingerprint fp (of its first entry)
URLOf(ks, fp) ==
    ks[CHOOSE i \in 1..Len(ks) :
          /\ ks[i].Fingerprint = fp
          /\ \A j \in 1..(i - 1) : ks[j].Fingerprint # fp].URL

\* C11: SetPGP is an upsert: starting from a key list with pairwise
\* distinct fingerprints, after any sequence of SetPGP calls the list still
\* has pairwise distinct fingerprints, holds exactly one entry per
\* fingerprint ever set or initially present, has lost no entry (the
\* initial entries keep their places), and each fingerprint's URL is the
\* one of the most recent SetPGP call for it, or the initial one if no
\* call named it.
C11_SetPGPUpsert ==
    (mpc = "built" /\ DistinctFingerprints(keys0)) =>
        /\ DistinctFingerprints(pmd.PGPKeys)
        /\ FingerprintsOf(pmd.PGPKeys) = FingerprintsOf(keys0) \cup EverSet
        /\ Len(pmd.PGPKeys) >= Len(keys0)
        /\ \A i \in 1..Len(keys0) :
              pmd.PGPKeys[i].Fingerprint = keys0[i].Fingerprint
        /\ \A fp \in FingerprintsOf(pmd.PGPKeys) :
              URLOf(pmd.PGPKeys, fp) =
                 IF fp \in EverSet THEN Ptr(lastSet[fp]) ELSE URLOf(keys0, fp)

\* a call has named a fingerprint the list held with another URL, and its
\* entry bears the call's URL; another call has named a fingerprint the
\* list did not hold
C11_Witness ==
    /\ mpc = "built"
    /\ DistinctFingerprints(keys0)
    /\ keys0 # <<>>
    /\ \E fp \in EverSet :
          /\ fp \in FingerprintsOf(keys0)
          /\ URLOf(keys0, fp) # Ptr(lastSet[fp])
          /\ URLOf(pmd.PGPKeys, fp) = Ptr(lastSet[fp])
    /\ EverSet \ FingerprintsOf(keys0) # {}

(* ---- ProviderMetadata.Defaults ---- *)

\* the four fields Defaults may fill
Defaulted(p) == <<p.Role, p.MetadataVersion, p.ListOnCSAFAggregators,
                  p.MirrorOnCSAFAggregators>>

\* the rest of the document
NotDefaulted(p) == <<p.CanonicalURL, p.Distributions, p.LastUpdated,
                     p.PGPKeys, p.Publisher>>

\* what a call of Defaults does to the document
C12_Step ==
    mpc' # mpc =>
        /\ NotDefaulted(pmd') = NotDefaulted(pmd)
        /\ \A i \in 1..4 :
              /\ Defaulted(pmd)[i] # null => Defaulted(pmd')[i] = Defaulted(pmd)[i]
              /\ Defaulted(pmd')[i] # null
        /\ mpc = "defaulted" => pmd' = pmd

\* C12: Defaults changes only role, metadata version and the two
\* aggregator flags, sets each of them only when it is absent (an explicit
\* value, an explicit false flag included, is never overwritten), and is
\* idempotent: a second call leaves the document as the first call left it.
C12_DefaultsFillsAbsentOnly == [][C12_Step]_vars

\* Defaults has been applied twice to a document that came with an explicit
\* false flag and a role other than the default one, and without a metadata
\* version or the other flag
C12_Witness ==
    /\ mpc = "defaulted twice"
    /\ pmd.ListOnCSAFAggregators = Ptr(FALSE)
    /\ pmd.Role = Ptr("csaf_trusted_provider")
    /\ pmd.MirrorOnCSAFAggregators = Ptr(TRUE)
    /\ pmd.MetadataVersion = Ptr(MetadataVersion20)
    /\ pmd.PGPKeys # <<>>

(* ---- worker.createDir ---- *)

\* C13: createDir is idempotent per worker: after any sequence of createDir
\* calls on one worker at most one staging directory has been created, every
\* successful call returns that one path, and a failed call leaves the
\* worker's recorded directory unset, so that the next call tries again.
C13_CreateDirIdempotent ==
    /\ Cardinality(made) <= 1
    /\ \A i \in 1..Len(rets) :
          /\ rets[i].err = nil => (rets[i].dir # NoDir /\ made = {rets[i].dir})
          /\ rets[i].err # nil =>
                /\ rets[i].wdir = NoDir
                /\ i < Len(rets) => rets[i + 1].called

\* a call has failed, the next one has created the directory, and a later
\* one has returned it again
C13_Witness ==
    /\ Len(rets) >= 3
    /\ rets[1].err # nil
    /\ rets[2].err = nil
    /\ rets[2].called
    /\ rets[3].err = nil
    /\ ~rets[3].called
    /\ rets[3].dir = rets[2].dir

(* ---- LoadProviderMetadata ---- *)

\* C14: LoadProviderMetadata accepts no document partially: it returns
\* either an error and no document (on decode failure or on Validate failure
\* of the decoded document), or a document that passed Validate before the
\* defaults were applied and whose role, metadata version and both
\* aggregator flags are non-null on return.
C14_LoadAllOrNothing ==
    mpc = "loaded" =>
        /\ (Decode(buf).err # nil \/ Validate(Decode(buf).v) # nil) =>
              (lerr # nil /\ loaded = null)
        /\ lerr # nil => loaded = null
        /\ lerr = nil =>
              /\ loaded # null
              /\ Decode(buf).err = nil
              /\ Validate(Decode(buf).v) = nil
              /\ \A i \in 1..4 : Defaulted(Deref(loaded))[i] # null
              /\ NotDefaulted(Deref(loaded)) = NotDefaulted(Decode(buf).v)

\* a document with keys, without role and listing flag and with an explicit
\* false mirroring flag has been loaded and came back with a role
C14_Witness ==
    /\ mpc = "loaded"
    /\ lerr = nil
    /\ buf.v.role = JNull
    /\ buf.v.list_on_CSAF_aggregators = JNull
    /\ buf.v.mirror_on_CSAF_aggregators = JBool(FALSE)
    /\ buf.v.pgp_keys # JAbsent
    /\ Deref(loaded).Role # null

\* a document has been turned down by Validate, another by the decoder
C14_WitnessValidateFails ==
    /\ mpc = "loaded"
    /\ Decode(buf).err = nil
    /\ buf.t = "object"
    /\ Validate(Decode(buf).v) # nil
    /\ lerr # nil

C14_WitnessDecodeFails ==
    /\ mpc = "loaded"
    /\ buf.t = "object"
    /\ Decode(buf).err # nil
    /\ lerr # nil

(* ---- worker.loc and worker.metadataProvider on return ---- *)

Succeeded == lpc = "done" /\ lret = nil

\* the last request made
LastFetch == fetched[Len(fetched)]

\* the document came from a well-known path, or through security.txt
ViaWellKnown == Len(fetched) <= Len(providerMetadataLocations)

\* C15: whenever locateProviderMetadata returns success, w.loc is the URL
\* of the provider-metadata document that was actually fetched, both when it
\* was found at a well-known path and when it was found through security.txt.
C15_LocIsFetchedURL ==
    Succeeded => w.loc = LastFetch.url

\* What w.loc holds on success: through security.txt the URL that was
\* fetched, at a well-known path the path below the domain, without scheme
\* and domain.
C15_LocOnSuccess ==
    Succeeded =>
        IF ViaWellKnown
        THEN /\ w.loc = <<providerMetadataLocations[Len(fetched)]>>
             /\ LastFetch.url = httpsDomain(domain) \o <<"/">> \o w.loc
        ELSE w.loc = LastFetch.url

\* C17: whenever locateProviderMetadata returns without error, the worker
\* holds a decoded, non-nil metadata document, on the well-known-path route
\* and on the security.txt route alike, for every response body the server
\* may send (the JSON value null included).
C17_DocumentOnSuccess ==
    Succeeded => w.metadataProvider # nil

\* On the well-known-path route success comes with a document; through
\* security.txt it comes with one unless the body fetched was null.
C17_DocumentUnlessNull ==
    Succeeded =>
        /\ ViaWellKnown => w.metadataProvider # nil
        /\ w.metadataProvider = nil <=> LastFetch.res.body = "null"

\* success through security.txt, and at a well-known path
C15_WitnessSecurityTxt == Succeeded /\ ~ViaWellKnown /\ w.loc = LastFetch.url

C15_WitnessWellKnown == Succeeded /\ ViaWellKnown /\ Len(fetched) = 2

(* ---- removeOrphans and the entries of configured providers ---- *)

SweepReturned == oret # "running"

\* C16: the orphan sweep leaves every published entry whose name is a
\* configured provider name unchanged, whatever its kind (link, file or
\* directory): after removeOrphans the entry still exists with the same
\* link target.
C16_ConfiguredEntriesKept ==
    SweepReturned =>
        \A n \in cfg.Providers :
            Entry0(n).kind # "none" => Kind(fs, EntryPath(n)) = Entry0(n)

\* The entries of configured providers stay as they were unless the sweep
\* removed a directory that holds the published folder.
C16_KeptButPublishedFolder ==
    (SweepReturned /\ ~PublishedFolderRemoved) =>
        \A n \in cfg.Providers :
            Entry0(n).kind # "none" => Kind(fs, EntryPath(n)) = Entry0(n)

\* the published folder lies outside the working folder, and the entry b
\* of a configured provider was kept while the orphan a was removed
C16_WitnessKept ==
    /\ SweepReturned
    /\ ~IsPrefix(W, cfg.Web)
    /\ "b" \in cfg.Providers
    /\ Entry0("b").kind = "link"
    /\ Kind(fs, EntryPath("b")) = Entry0("b")
    /\ OrphanDirLink0("a")
    /\ Kind(fs, EntryPath("a")).kind = "none"

\* a link of a configured provider that resolved to a directory
ConfiguredDirLink0(n) ==
    /\ n \in cfg.Providers
    /\ Entry0(n).kind = "link"
    /\ Target0(n).err = nil
    /\ Kind(fs0, Target0(n).path).kind = "dir"

StillResolves(n) ==
    LET ev == EvalSymlinks(fs, EntryPath(n))
    IN  /\ ev.err = nil
        /\ ev.path = Target0(n).path
        /\ Kind(fs, ev.path).kind = "dir"

\* C18: the orphan sweep never deletes a directory that is the resolved
\* target of a published link of a still-configured provider: for any
\* initial link topology (several links may resolve to the same directory),
\* after removeOrphans every configured provider's link that resolved to a
\* directory before the sweep still resolves to that directory.
C18_ConfiguredTargetsKept ==
    SweepReturned => \A n \in cfg.Providers : ConfiguredDirLink0(n) => StillResolves(n)

\* the directory the sweep removed for entry i, or part of it
RemovedBy(i) == swept[i].outcome \in {"dirRemoved", "removeAllErr"}

\* A configured provider's link resolves as before unless it resolved by
\* way of another published entry, or the sweep removed, for an orphan, a
\* directory that holds the link or what it resolved to.
C18_KeptUnlessShared ==
    SweepReturned =>
        \A n \in cfg.Providers :
            ( /\ ConfiguredDirLink0(n)
              /\ ~IsPrefix(Pub, Entry0(n).target)
              /\ \A i \in 1..Len(swept) :
                    RemovedBy(i) =>
                        /\ ~IsPrefix(swept[i].r, Target0(n).path)
                        /\ ~IsPrefix(swept[i].r, EntryPath(n)) )
            => StillResolves(n)

\* the orphan a and the configured provider b were links to one mirror
\* directory; the sweep removed the directory and b dangles
C18_WitnessShared ==
    /\ oret = nil
    /\ ~IsPrefix(W, cfg.Web)
    /\ cfg.Providers = {"b"}
    /\ ConfiguredDirLink0("b")
    /\ OrphanDirLink0("a")
    /\ Target0("a").path = W \o <<"m1">>
    /\ Target0("b").path = W \o <<"m1">>
    /\ fs0[EntryPath("b")].target = W \o <<"m1">>
    /\ ~StillResolves("b")

(* ---- controller.auth ---- *)

Served == creq # <<>>

\* C19: the auth gate invokes the wrapped handler only if either the
\* client-certificate check reports SUCCESS and the configured issuer is
\* unset or equal to the presented issuer, or a password is configured and
\* the X-CSAF-PROVIDER-AUTH header passes the password check; in every other
\* case it answers 403 Forbidden and the wrapped handler is never invoked
\* (in particular when no password is configured and the certificate check
\* does not succeed).
C19_AuthGate ==
    Served =>
        LET byCert == /\ creq.verify = "SUCCESS"
                      /\ (ccfg.Issuer = <<>> \/ ccfg.Issuer = <<creq.issuerDN>>)
            byPassword == ccfg.Password # <<>> /\ creq.checkPassword
        IN  /\ cresp.invoked => (byCert \/ byPassword)
            /\ ~(byCert \/ byPassword) =>
                  (cresp.status = StatusForbidden /\ ~cresp.invoked)
            /\ (ccfg.Password = <<>> /\ creq.verify # "SUCCESS") =>
                  (cresp.status = StatusForbidden /\ ~cresp.invoked)

\* a request with a certificate of another issuer than the configured one
\* and a header the password check turns down has been answered 403
C19_Witness ==
    /\ Served
    /\ creq.verify = "SUCCESS"
    /\ ccfg.Issuer # <<>>
    /\ ccfg.Issuer # <<creq.issuerDN>>
    /\ ccfg.Password # <<>>
    /\ creq.header
    /\ ~creq.checkPassword
    /\ cresp.status = StatusForbidden
    /\ ~cresp.invoked

====
